---- MODULE Spec2Model ----
(***************************************************************************)
(* The adapter/registry subsystem of the LCP gateway: AdapterManager (the  *)
(* registry) and its three transport adapters, MqttAdapter (bus),          *)
(* WebSocketAdapter (stream) and RestAdapter (polled-http).                *)
(*                                                                         *)
(* JavaScript runs one callback at a time.  Each action below is one       *)
(* synchronous run: the part of an async function up to its first await,   *)
(* the continuation after an await, or one event handler.  Continuations   *)
(* of settled promises are microtasks: they run before any I/O event or    *)
(* timer, but after whatever the caller does next in its own synchronous   *)
(* run, so API calls may interleave with them and I/O events may not.      *)
(***************************************************************************)
EXTENDS Integers, Sequences, FiniteSets, TLC

\* ---------------------------------------------------------------- bounds
\* Calls of registerDevice, sendCommand, fetchData and disconnect issued in
\* one behaviour.
MaxCalls == 2
\* Poll requests a device may have outstanding at once.
MaxPolls == 1
\* Sockets the stream adapter can have dialled: one per registerDevice call.
MaxSockets == MaxCalls
\* Client objects the bus adapter can have made: one per connect.
MaxSessions == MaxCalls

\* ---------------------------------------------------------------- values
Protocols == {"MQTT", "WebSocket", "REST"}
\* A protocol string no adapter is ever bound to, and the missing protocol.
OtherProtocols == {"Serial", ""}
Devices == {"d1", "d2"}
Topics == {"t1", "t2"}
Urls == {"u1", "u2"}
None == "none"

\* connection_details, flattened to one shape: "" is an absent field,
\* has_topics is whether connection_details.mqtt_topics exists at all.
EmptyDetails ==
    [has_topics |-> FALSE, data |-> "", control |-> "",
     websocket_url |-> "", base_url |-> "", polling_interval |-> 0]

MqttDetails ==
    {EmptyDetails}
    \cup {[EmptyDetails EXCEPT !.has_topics = TRUE, !.data = t, !.control = "c1"] :
            t \in Topics \cup {""}}
    \cup {[EmptyDetails EXCEPT !.has_topics = TRUE, !.data = "t1"]}

WsDetails ==
    {[EmptyDetails EXCEPT !.websocket_url = u] : u \in Urls \cup {""}}

RestDetails ==
    {EmptyDetails,
     [EmptyDetails EXCEPT !.base_url = "b1"],
     [EmptyDetails EXCEPT !.base_url = "b1", !.polling_interval = 1000]}

DetailsFor(p) ==
    CASE p = "MQTT" -> MqttDetails
      [] p = "WebSocket" -> WsDetails
      [] p = "REST" -> RestDetails
      [] OTHER -> {EmptyDetails}

\* The registration records a caller may pass to registerDevice.
Records ==
    {[device_id |-> d, protocol |-> p, connection_details |-> cd] :
        d \in Devices, p \in Protocols \cup OtherProtocols, cd \in MqttDetails \cup WsDetails \cup RestDetails}

ValidRecords == {r \in Records : r.connection_details \in DetailsFor(r.protocol)}

\* The value of deviceMap.get(id) for an id the map does not hold.
NoDevice == [device_id |-> "", protocol |-> "", connection_details |-> EmptyDetails]

EmptyDeviceMap == [d \in Devices |-> NoDevice]

\* ---------------------------------------------------------------- state
VARIABLES
    adapters,            \* AdapterManager.adapters: the protocols with an adapter
    deviceAdapterMap,    \* AdapterManager.deviceAdapterMap: device_id -> protocol
    regCalls,            \* registerDevice calls awaiting adapter.registerDevice
    discState,           \* AdapterManager.disconnect: idle | waiting (for client.end) | settled
    nCalls,              \* registry calls issued so far, connect aside
    lastCall,            \* the outcome of the API call that completed last
    discCall,            \* the call number of the disconnect in progress
    overlapped,          \* registrations (device, protocol) that ran while a disconnect was in progress
    regLog,              \* per device, the records registered successfully since the last completed disconnect
    mqttClient,          \* MqttAdapter.client: null | open
    mqttEnding,          \* client.end(true, cb) was called and cb has not run
    mqttSubscriptions,   \* MqttAdapter.subscriptions: topic -> device_id
    mqttDeviceMap,       \* MqttAdapter.deviceMap
    mqttPendingSubs,     \* client.subscribe callbacks that have not run
    mqttSessions,        \* client objects made by mqtt.connect and not ended
    mqttConnecting,      \* the promise of MqttAdapter.connect: none | pending | connected | failed
    connState,           \* AdapterManager.connect: idle | waiting (for the broker) | settled | rejecting
    lastPublish,         \* the messages handed to client.publish by the last sendCommand
    lastInbound,         \* the transport and fate of the inbound message handled last
    cmdPending,          \* sendCommand promises waiting for publish's callback or the HTTP answer
    fetchPending,        \* fetchData promises waiting for the HTTP answer
    now,                 \* the time, in ms
    timerDue,            \* per device, when its setInterval timer fires next
    nCallbacks,          \* per device, the inbound-data callbacks made for its polls
    lapsed,              \* per device: a read failed, or time passed over an unanswered read or a due timer
    svcDevices,          \* DeviceService.devices: device id -> its status and lastSeen
    dataPoints,          \* DeviceService.dataPoints: every point received, in arrival order
    deviceData,          \* DeviceService.deviceData: device id -> the points kept for it
    nArrived,            \* per device, the points that have arrived for it since it is known
    dbDevices,           \* the devices table: device id -> status (none: no row)
    svcLast,             \* the operation of DeviceService that ran last, and how it ended
    cbOptions,           \* the onDataCallback options the AdapterManager was constructed with
    cbInvoked,           \* the callbacks invoked for the data point an adapter produced last
    experimentRunning,   \* OT2Server.experimentRunning
    currentProtocol,     \* OT2Server.currentProtocol ("null": null)
    otConnected,         \* DeviceServer.connected
    otCalls,             \* the getData calls: a call's promise, listener and timer
    otResponses,         \* get_data commands the device has received and not answered
    otLast,              \* the operation of OT2Server that ran last, and how it ended
    wsDeviceMap,         \* WebSocketAdapter.deviceMap
    wsConnections,       \* WebSocketAdapter.connections: url -> socket (0: none)
    wsSockets,           \* every socket dialled: its url and state
    restDeviceMap,       \* RestAdapter.deviceMap
    restPollingIntervals,\* RestAdapter.pollingIntervals: devices with a timer handle
    restTimers,          \* active setInterval timers per device
    restPolls,           \* poll requests (axios.get of a tick) not yet answered
    restDisconnected,    \* devices whose REST disconnect completed since their last registration
    lastData,            \* the DataPoint handed last to the inbound-data callback
    nData                \* the number of inbound-data callbacks so far, modulo 2

mgrVars == <<adapters, deviceAdapterMap, regCalls, discState, discCall, nCalls, lastCall,
            overlapped, regLog>>
mqttVars == <<mqttClient, mqttEnding, mqttSubscriptions, mqttDeviceMap, mqttPendingSubs,
             mqttSessions>>
wsVars == <<wsDeviceMap, wsConnections, wsSockets>>
restVars == <<restDeviceMap, restPollingIntervals, restTimers, restPolls, restDisconnected>>
dataVars == <<lastData, nData>>
connVars == <<mqttConnecting, connState, lastPublish, lastInbound>>
clockVars == <<fetchPending, now, timerDue, nCallbacks, lapsed>>
svcVars == <<svcDevices, dataPoints, deviceData, nArrived, dbDevices, svcLast>>
cbVars == <<cbOptions, cbInvoked>>
otVars == <<experimentRunning, currentProtocol, otConnected, otCalls, otResponses, otLast>>
lateVars == <<cbVars, otVars>>
extVars == <<cmdPending, clockVars, svcVars, lateVars>>
vars == <<mgrVars, mqttVars, wsVars, restVars, dataVars, connVars, extVars>>

\* No device under the id, and no operation run yet.
NoEntry == [status |-> "none", lastSeen |-> 0]
NoRun == [op |-> "", device_id |-> "", result |-> "", code |-> ""]

NoCall == [n |-> 0, op |-> "", device_id |-> "", result |-> "", via |-> <<>>, tx |-> ""]

FreeSocket == [url |-> "", st |-> "free"]

\* A decoded JSON value: an object with its key/value pairs, or a scalar.
JsonObject(fields) == [kind |-> "object", fields |-> fields]
JsonNull == [kind |-> "null", fields |-> {}]

NoData == [deviceId |-> "", protocol |-> "", parameters |-> JsonNull]

NoPublish == [count |-> 0, topic |-> "", body |-> JsonNull]

NoInbound == [protocol |-> "", outcome |-> ""]

\* The requests for data that are followed.
MaxRequests == 2

\* A getData call that has not been made, and no protocol.
NoRequest == [st |-> "none", result |-> "", of |-> 0, listening |-> FALSE, timer |-> FALSE]
NoProtocol == "null"

\* No data point produced yet.
NoInvocation == [protocol |-> "", top |-> FALSE, block |-> FALSE]

\* The registry is given its data callback at the top level of its options.
TopLevelOnly == [top |-> TRUE, blocks |-> {}]

\* The state after construction, the callback options aside.
Constructed ==
    /\ adapters \in SUBSET Protocols
    /\ deviceAdapterMap = [d \in Devices |-> None]
    /\ regCalls = {}
    /\ discState = "idle"
    /\ discCall = 0
    /\ overlapped = {}
    /\ nCalls = 0
    /\ lastCall = NoCall
    /\ regLog = [d \in Devices |-> <<>>]
    /\ mqttClient = "null"
    /\ mqttEnding = FALSE
    /\ mqttSubscriptions = [t \in Topics |-> None]
    /\ mqttDeviceMap = EmptyDeviceMap
    /\ mqttPendingSubs = {}
    /\ mqttSessions = 0
    /\ mqttConnecting = "none"
    /\ connState = "idle"
    /\ lastPublish = NoPublish
    /\ lastInbound = NoInbound
    /\ cmdPending = {}
    /\ fetchPending = {}
    /\ now = 0
    /\ timerDue = [d \in Devices |-> 0]
    /\ nCallbacks = [d \in Devices |-> 0]
    /\ lapsed = [d \in Devices |-> FALSE]
    /\ svcDevices = [d \in Devices |-> NoEntry]
    /\ dataPoints = <<>>
    /\ deviceData = <<>>
    /\ nArrived = [d \in Devices |-> 0]
    /\ dbDevices = [d \in Devices |-> "none"]
    /\ svcLast = NoRun
    /\ wsDeviceMap = EmptyDeviceMap
    /\ wsConnections = [u \in Urls |-> 0]
    /\ wsSockets = [i \in 1..MaxSockets |-> FreeSocket]
    /\ restDeviceMap = EmptyDeviceMap
    /\ restPollingIntervals = {}
    /\ restTimers = [d \in Devices |-> 0]
    /\ restPolls = [d \in Devices |-> 0]
    /\ restDisconnected = {}
    /\ lastData = NoData
    /\ nData = 0
    /\ cbInvoked = NoInvocation
    /\ experimentRunning = FALSE
    /\ currentProtocol = NoProtocol
    /\ otConnected = FALSE
    /\ otCalls = [r \in 1..MaxRequests |-> NoRequest]
    /\ otResponses = {}
    /\ otLast = NoRun

Init == Constructed /\ cbOptions = TopLevelOnly

\* A continuation of a settled promise is queued: no I/O event or timer
\* callback runs before it.
MicrotaskPending ==
    \/ \E c \in regCalls : c.st = "resolved"
    \/ discState = "settled"
    \/ connState \in {"settled", "rejecting"}

\* A DataPoint that loses the parameters it is given.
DataPointNoParameters(deviceId, protocol, parameters) ==
    [deviceId |-> deviceId, protocol |-> protocol, parameters |-> JsonObject({})]

\* new DataPoint({deviceId, protocol, parameters}): a falsy parameters value
\* (null, among the JSON values here) is replaced by an empty object.
DataPoint(deviceId, protocol, parameters) ==
    [deviceId |-> deviceId, protocol |-> protocol,
     parameters |-> IF parameters = JsonNull THEN JsonObject({}) ELSE parameters]

\* DataPoint.toStandardFormat, the timestamp and experiment id aside.
ToStandardFormat(dp) ==
    [device_id |-> dp.deviceId, protocol |-> dp.protocol, parameters |-> dp.parameters]

\* The body of the answer to a poll request.
PollBody == JsonObject({<<"temperature", "20.5">>})

\* AdapterManager.handleData: the DataPoint is forwarded to the callback the
\* registry was constructed with.
OnDataCallback(dataPoint) ==
    /\ lastData' = dataPoint
    /\ nData' = (nData + 1) % 2

\* ------------------------------------------------------------ MqttAdapter
\* MqttAdapter.connect, up to the broker's answer: a client object exists as
\* soon as mqtt.connect returns, and subscribe and publish may be called on it.
MqttConnect ==
    /\ mqttClient' = "open"
    /\ mqttSessions' = mqttSessions + 1
    /\ UNCHANGED <<mqttEnding, mqttSubscriptions, mqttDeviceMap, mqttPendingSubs>>

\* MqttAdapter.registerDevice; settled is the state of the promise it returns
\* when the synchronous run ends.  subscribe on a null client throws inside
\* the try block; on a client that is ending, mqtt calls the callback at once
\* with an error, so reject runs before resolve; otherwise the callback is
\* pending and resolve has already run when it comes.
MqttRegisterDevice(device, settled) ==
    LET cd == device.connection_details
        id == device.device_id
    IN  IF ~cd.has_topics
        THEN /\ settled = "rejected"
             /\ UNCHANGED mqttVars
        ELSE IF cd.data # "" /\ mqttClient = "null"
        THEN /\ settled = "rejected"
             /\ UNCHANGED mqttVars
        ELSE /\ mqttDeviceMap' = [mqttDeviceMap EXCEPT ![id] = device]
             /\ IF cd.data = ""
                THEN /\ settled = "resolved"
                     /\ UNCHANGED mqttPendingSubs
                ELSE IF mqttEnding
                THEN /\ settled = "rejected"
                     /\ UNCHANGED mqttPendingSubs
                ELSE /\ settled = "resolved"
                     /\ mqttPendingSubs' =
                            mqttPendingSubs \cup {[topic |-> cd.data, device_id |-> id]}
             /\ UNCHANGED <<mqttClient, mqttEnding, mqttSubscriptions, mqttSessions>>

\* The callback of client.subscribe: on success the topic is mapped to the
\* device; on failure reject is called on a promise that is already resolved.
MqttSubscribeCallback(sub, ok) ==
    /\ sub \in mqttPendingSubs
    /\ mqttPendingSubs' = mqttPendingSubs \ {sub}
    /\ mqttSubscriptions' =
           IF ok THEN [mqttSubscriptions EXCEPT ![sub.topic] = sub.device_id]
           ELSE mqttSubscriptions
    /\ UNCHANGED <<mqttClient, mqttEnding, mqttDeviceMap, mqttSessions>>

\* MqttAdapter.disconnect, synchronous part; settled is the state of the
\* promise it returns.
MqttDisconnect(settled) ==
    IF mqttClient = "null"
    THEN /\ settled = "resolved"
         /\ UNCHANGED mqttVars
    ELSE /\ settled = "pending"
         /\ mqttEnding' = TRUE
         /\ UNCHANGED <<mqttClient, mqttSubscriptions, mqttDeviceMap, mqttPendingSubs,
                        mqttSessions>>

\* The callback of client.end: the client is dropped and the topic map
\* cleared; deviceMap is left as it is.  The closed client fails the
\* subscribe callbacks it still holds.
MqttEndCallback ==
    /\ mqttClient' = "null"
    /\ mqttEnding' = FALSE
    /\ mqttSubscriptions' = [t \in Topics |-> None]
    /\ mqttPendingSubs' = {}
    /\ mqttSessions' = mqttSessions - 1
    /\ UNCHANGED mqttDeviceMap

\* A bus adapter that publishes without looking whether the device has a
\* control topic.
MqttSendCommandNoTopicCheck(id) ==
    LET device == mqttDeviceMap[id] IN
    IF device = NoDevice THEN [result |-> "DeviceNotFound", tx |-> ""]
    ELSE IF mqttClient = "null" THEN [result |-> "TypeError", tx |-> ""]
    ELSE [result |-> "sent", tx |-> device.connection_details.control]

\* MqttAdapter.sendCommand: the outcome of its synchronous run.
MqttSendCommand(id) ==
    LET device == mqttDeviceMap[id] IN
    IF device = NoDevice THEN [result |-> "DeviceNotFound", tx |-> ""]
    ELSE IF device.connection_details.control = ""
    THEN [result |-> "DestinationMissing", tx |-> ""]
    ELSE IF mqttClient = "null" THEN [result |-> "TypeError", tx |-> ""]
    ELSE [result |-> "sent", tx |-> device.connection_details.control]

\* ------------------------------------------------------- WebSocketAdapter
WsUsed == {i \in 1..MaxSockets : wsSockets[i].st # "free"}

\* client.connect(url): a new socket, being opened.
WsDialled(url) == [wsSockets EXCEPT ![Cardinality(WsUsed) + 1] = [url |-> url, st |-> "dialing"]]

\* WebSocketAdapter.registerDevice.
WsRegisterDevice(device, settled) ==
    LET url == device.connection_details.websocket_url IN
    IF url = ""
    THEN /\ settled = "rejected"
         /\ UNCHANGED wsVars
    ELSE /\ settled = "resolved"
         /\ wsDeviceMap' = [wsDeviceMap EXCEPT ![device.device_id] = device]
         /\ IF wsConnections[url] = 0
            THEN /\ Cardinality(WsUsed) < MaxSockets
                 /\ wsSockets' = WsDialled(url)
            ELSE UNCHANGED wsSockets
         /\ UNCHANGED wsConnections

\* The client's 'connect' event: the connection is stored under its url.
WsConnectEvent(i) ==
    /\ wsSockets[i].st = "dialing"
    /\ wsSockets' = [wsSockets EXCEPT ![i].st = "open"]
    /\ wsConnections' = [wsConnections EXCEPT ![wsSockets[i].url] = i]
    /\ UNCHANGED wsDeviceMap

\* The sockets closed by connection.close() on every stored connection.
WsClosedAll ==
    [i \in 1..MaxSockets |->
        IF \E u \in Urls : wsConnections[u] = i
        THEN [wsSockets[i] EXCEPT !.st = "closed"] ELSE wsSockets[i]]

\* WebSocketAdapter.disconnect(): every stored connection is closed and both
\* maps are cleared; a socket still being dialled is in neither.
WsDisconnectAll ==
    /\ wsSockets' = WsClosedAll
    /\ wsConnections' = [u \in Urls |-> 0]
    /\ wsDeviceMap' = EmptyDeviceMap

\* WebSocketAdapter.disconnect(deviceId).
WsDisconnectDevice(id) ==
    LET device == wsDeviceMap[id]
        url == device.connection_details.websocket_url
    IN  IF device # NoDevice /\ url # ""
        THEN /\ wsDeviceMap' = [wsDeviceMap EXCEPT ![id] = NoDevice]
             /\ IF wsConnections[url] # 0
                THEN /\ wsSockets' = [wsSockets EXCEPT ![wsConnections[url]].st = "closed"]
                     /\ wsConnections' = [wsConnections EXCEPT ![url] = 0]
                ELSE UNCHANGED <<wsSockets, wsConnections>>
        ELSE UNCHANGED wsVars

\* WebSocketAdapter.sendCommand: the outcome of its synchronous run.
WsSendCommand(id) ==
    LET device == wsDeviceMap[id]
        url == device.connection_details.websocket_url
    IN  IF device = NoDevice THEN [result |-> "DeviceNotFound", tx |-> ""]
        ELSE IF url = "" THEN [result |-> "DestinationMissing", tx |-> ""]
        ELSE IF wsConnections[url] = 0 THEN [result |-> "NoConnection", tx |-> ""]
        ELSE [result |-> "sent", tx |-> url]

\* ------------------------------------------------------------ RestAdapter
\* RestAdapter.stopPolling: the timer in the map, if any, is cleared.
StopPolling(timers, id) ==
    IF id \in restPollingIntervals THEN [timers EXCEPT ![id] = @ - 1] ELSE timers

\* RestAdapter.startPolling: the old timer is stopped; a new one is started
\* and stored unless the device has left deviceMap.
RestStartPolling(id) ==
    IF restDeviceMap[id] = NoDevice
    THEN /\ restTimers' = StopPolling(restTimers, id)
         /\ restPollingIntervals' = restPollingIntervals \ {id}
    ELSE /\ restTimers' = [StopPolling(restTimers, id) EXCEPT ![id] = @ + 1]
         /\ restPollingIntervals' = restPollingIntervals \cup {id}

\* RestAdapter.registerDevice, synchronous part: the device is stored and the
\* health probe is sent; the promise settles when the probe is answered.
RestRegisterDevice(device, settled) ==
    IF device.connection_details.base_url = ""
    THEN /\ settled = "rejected"
         /\ UNCHANGED restVars
    ELSE /\ settled = "pending"
         /\ restDeviceMap' = [restDeviceMap EXCEPT ![device.device_id] = device]
         /\ restDisconnected' = restDisconnected \ {device.device_id}
         /\ UNCHANGED <<restPollingIntervals, restTimers, restPolls>>

\* The answer to the health probe of testConnection.
RestProbeAnswered(device, ok) ==
    /\ IF ok /\ device.connection_details.polling_interval # 0
       THEN RestStartPolling(device.device_id)
       ELSE UNCHANGED <<restPollingIntervals, restTimers>>
    /\ UNCHANGED <<restDeviceMap, restPolls, restDisconnected>>

\* RestAdapter.disconnect(): a synchronous function with no return value.
RestDisconnectAll ==
    /\ restTimers' = [d \in Devices |-> StopPolling(restTimers, d)[d]]
    /\ restPollingIntervals' = {}
    /\ restDeviceMap' = EmptyDeviceMap
    /\ restDisconnected' = Devices
    /\ UNCHANGED restPolls

\* RestAdapter.disconnect(deviceId).
RestDisconnectDevice(id) ==
    /\ restTimers' = StopPolling(restTimers, id)
    /\ restPollingIntervals' = restPollingIntervals \ {id}
    /\ restDeviceMap' = [restDeviceMap EXCEPT ![id] = NoDevice]
    /\ restDisconnected' = restDisconnected \cup {id}
    /\ UNCHANGED restPolls

\* RestAdapter.sendCommand and fetchData: the outcome of the synchronous run.
RestSendCommand(id) ==
    IF restDeviceMap[id] = NoDevice THEN [result |-> "DeviceNotFound", tx |-> ""]
    ELSE [result |-> "sent", tx |-> restDeviceMap[id].connection_details.base_url]

RestFetchData(id) ==
    IF restDeviceMap[id] = NoDevice THEN [result |-> "DeviceNotFound", tx |-> ""]
    ELSE [result |-> "requested", tx |-> restDeviceMap[id].connection_details.base_url]


\* --------------------------------------------------------- AdapterManager
Outcome(n, op, id, result, via, tx) ==
    [n |-> n, op |-> op, device_id |-> id, result |-> result, via |-> via, tx |-> tx]

EmptyRouting == [d \in Devices |-> None]

\* AdapterManager.connect: of the three adapters only MqttAdapter has a
\* connect method.
MgrConnect ==
    /\ "MQTT" \in adapters
    /\ mqttClient = "null"
    /\ MqttConnect
    /\ UNCHANGED <<mgrVars, wsVars, restVars, dataVars, connVars, extVars>>

\* adapter.registerDevice(device) of the adapter bound to the protocol.
AdapterRegisterDevice(device, settled) ==
    CASE device.protocol = "MQTT" ->
            MqttRegisterDevice(device, settled) /\ UNCHANGED <<wsVars, restVars>>
      [] device.protocol = "WebSocket" ->
            WsRegisterDevice(device, settled) /\ UNCHANGED <<mqttVars, restVars>>
      [] device.protocol = "REST" ->
            RestRegisterDevice(device, settled) /\ UNCHANGED <<mqttVars, wsVars>>

\* A registry that writes the routing entry without regard to how the
\* adapter's registration ended.
RoutingAfterRegisterAlways(map, device, settled) ==
    [map EXCEPT ![device.device_id] = device.protocol]

\* The routing table once `await adapter.registerDevice(device)` has settled:
\* the entry is written after a resolved await, and a rejection leaves the
\* function before the write.
RoutingAfterRegister(map, device, settled) ==
    IF settled = "resolved"
    THEN [map EXCEPT ![device.device_id] = device.protocol]
    ELSE map

\* AdapterManager.registerDevice from its await on: the call ends, with the
\* routing entry written or with the adapter's rejection.
RegisterContinuation(n, device, settled) ==
    /\ deviceAdapterMap' = RoutingAfterRegister(deviceAdapterMap, device, settled)
    /\ regLog' = IF settled = "resolved"
                 THEN [regLog EXCEPT ![device.device_id] = Append(@, device)]
                 ELSE regLog
    /\ lastCall' = Outcome(n, "registerDevice", device.device_id,
                           IF settled = "resolved" THEN "ok" ELSE "rejected",
                           <<device.protocol>>, "")

\* A registry that writes the routing entry before it looks for the adapter.
RegisterDeviceRoutesFirst(device) ==
    /\ nCalls < MaxCalls
    /\ nCalls' = nCalls + 1
    /\ IF device.protocol = "" \/ device.protocol \notin adapters
       THEN /\ lastCall' = Outcome(nCalls + 1, "registerDevice", device.device_id,
                                   IF device.protocol = "" THEN "ProtocolNotSpecified"
                                   ELSE "NoAdapter", <<>>, "")
            /\ deviceAdapterMap' = [deviceAdapterMap EXCEPT ![device.device_id] = device.protocol]
            /\ UNCHANGED <<regCalls, regLog, overlapped>>
            /\ UNCHANGED <<mqttVars, wsVars, restVars>>
       ELSE \E settled \in {"resolved", "rejected", "pending"} :
              /\ AdapterRegisterDevice(device, settled)
              /\ overlapped' =
                     IF discState = "idle" THEN overlapped
                     ELSE overlapped \cup {[device_id |-> device.device_id,
                                            protocol |-> device.protocol]}
              /\ IF settled = "rejected"
                 THEN /\ RegisterContinuation(nCalls + 1, device, settled)
                      /\ UNCHANGED regCalls
                 ELSE /\ regCalls' = regCalls \cup
                            {[id |-> nCalls + 1, device |-> device, st |-> settled]}
                      /\ UNCHANGED <<deviceAdapterMap, regLog, lastCall>>
    /\ UNCHANGED <<adapters, discState, discCall, dataVars, connVars, extVars>>

\* AdapterManager.registerDevice up to its await; a rejection that is already
\* there ends the call.
RegisterDeviceRuns(device) ==
    /\ nCalls < MaxCalls
    /\ nCalls' = nCalls + 1
    /\ IF device.protocol = "" \/ device.protocol \notin adapters
       THEN /\ lastCall' = Outcome(nCalls + 1, "registerDevice", device.device_id,
                                   IF device.protocol = "" THEN "ProtocolNotSpecified"
                                   ELSE "NoAdapter", <<>>, "")
            /\ UNCHANGED <<deviceAdapterMap, regCalls, regLog, overlapped>>
            /\ UNCHANGED <<mqttVars, wsVars, restVars>>
       ELSE \E settled \in {"resolved", "rejected", "pending"} :
              /\ AdapterRegisterDevice(device, settled)
              /\ overlapped' =
                     IF discState = "idle" THEN overlapped
                     ELSE overlapped \cup {[device_id |-> device.device_id,
                                            protocol |-> device.protocol]}
              /\ IF settled = "rejected"
                 THEN /\ RegisterContinuation(nCalls + 1, device, settled)
                      /\ UNCHANGED regCalls
                 ELSE /\ regCalls' = regCalls \cup
                            {[id |-> nCalls + 1, device |-> device, st |-> settled]}
                      /\ UNCHANGED <<deviceAdapterMap, regLog, lastCall>>
    /\ UNCHANGED <<adapters, discState, discCall, dataVars, connVars>>

RegisterDevice(device) == RegisterDeviceRuns(device) /\ UNCHANGED extVars

\* AdapterManager.registerDevice after an await that resolved in the
\* synchronous run of the adapter (MQTT, WebSocket).
RegisterDeviceDone(c) ==
    /\ c \in regCalls
    /\ c.st = "resolved"
    /\ regCalls' = regCalls \ {c}
    /\ RegisterContinuation(c.id, c.device, c.st)
    /\ UNCHANGED <<adapters, discState, discCall, nCalls, overlapped>>
    /\ UNCHANGED <<mqttVars, wsVars, restVars, dataVars, connVars, extVars>>

\* The health probe of a pending REST registration is answered: the adapter's
\* promise settles and the registry's continuation runs in the same turn.
RestProbeSettles(c, ok) ==
    /\ ~MicrotaskPending
    /\ c \in regCalls
    /\ c.st = "pending"
    /\ RestProbeAnswered(c.device, ok)
    /\ regCalls' = regCalls \ {c}
    /\ RegisterContinuation(c.id, c.device, IF ok THEN "resolved" ELSE "rejected")
    /\ UNCHANGED <<adapters, discState, discCall, nCalls, overlapped>>
    /\ UNCHANGED <<mqttVars, wsVars, dataVars, connVars>>

RestProbeResponse(c, ok) == RestProbeSettles(c, ok) /\ UNCHANGED extVars

\* A registry that hands every command of a registered device to the bus
\* adapter, whatever the device was registered with.
SendCommandRouteFixed(map, id) ==
    IF map[id] = None THEN <<>> ELSE <<"MQTT">>

\* A registry that hands the command of an unknown device to the bus adapter
\* instead of failing.
SendCommandRouteDefault(map, id) ==
    IF map[id] = None THEN <<"MQTT">> ELSE <<map[id]>>

\* The adapters whose sendCommand AdapterManager.sendCommand calls, in order:
\* none for a device the routing table does not hold, else the one adapter
\* stored under the routed protocol.
SendCommandRoute(map, id) ==
    IF map[id] = None THEN <<>> ELSE <<map[id]>>

AdapterSendCommand(p, id) ==
    CASE p = "MQTT" -> MqttSendCommand(id)
      [] p = "WebSocket" -> WsSendCommand(id)
      [] p = "REST" -> RestSendCommand(id)

\* AdapterManager.sendCommand.
SendCommand(id) ==
    LET via == SendCommandRoute(deviceAdapterMap, id) IN
    /\ nCalls < MaxCalls
    /\ nCalls' = nCalls + 1
    /\ lastCall' =
           IF via = <<>>
           THEN Outcome(nCalls + 1, "sendCommand", id, "DeviceNotRegistered", <<>>, "")
           ELSE IF \E i \in 1..Len(via) : via[i] \notin adapters
           THEN Outcome(nCalls + 1, "sendCommand", id, "NoAdapter", <<>>, "")
           ELSE Outcome(nCalls + 1, "sendCommand", id, AdapterSendCommand(via[Len(via)], id).result,
                        via, AdapterSendCommand(via[Len(via)], id).tx)
    /\ UNCHANGED <<adapters, deviceAdapterMap, regCalls, discState, discCall, overlapped, regLog>>
    /\ UNCHANGED <<mqttVars, wsVars, restVars, dataVars, connVars, extVars>>

\* A registry that takes every adapter to have fetchData.
HasFetchDataAny(p) == TRUE

\* Whether the adapter class has a fetchData method: only RestAdapter has.
HasFetchData(p) == p = "REST"

\* What calling fetchData on the adapter does: RestAdapter looks the device up
\* and sends a GET; a class without the method cannot be called.
AdapterFetchData(p, id) ==
    IF p = "REST" THEN RestFetchData(id)
    ELSE [result |-> "TypeError", tx |-> ""]

\* AdapterManager.fetchData.
FetchDataRun(id) ==
    LET p == deviceAdapterMap[id] IN
    /\ nCalls < MaxCalls
    /\ nCalls' = nCalls + 1
    /\ lastCall' =
           IF p = None
           THEN Outcome(nCalls + 1, "fetchData", id, "DeviceNotRegistered", <<>>, "")
           ELSE IF p \notin adapters \/ ~HasFetchData(p)
           THEN Outcome(nCalls + 1, "fetchData", id, "FetchNotSupported", <<>>, "")
           ELSE Outcome(nCalls + 1, "fetchData", id, AdapterFetchData(p, id).result, <<p>>,
                        AdapterFetchData(p, id).tx)
    /\ UNCHANGED <<adapters, deviceAdapterMap, regCalls, discState, discCall, overlapped, regLog>>
    /\ UNCHANGED <<mqttVars, wsVars, restVars, dataVars, connVars>>

FetchData(id) == FetchDataRun(id) /\ UNCHANGED extVars

\* What adapter.disconnect() returns to the registry: MqttAdapter and
\* WebSocketAdapter return a promise, RestAdapter returns nothing.
DisconnectReturns(p) == IF p = "REST" THEN "undefined" ELSE "promise"

\* AdapterManager.disconnect after `await Promise.all(...)`.
DisconnectContinuation ==
    /\ discState' = "idle"
    /\ deviceAdapterMap' = EmptyRouting
    /\ regLog' = [d \in Devices |-> <<>>]
    /\ lastCall' = Outcome(discCall, "disconnect", "", "ok", <<>>, "")

\* A registry that waits for each adapter's disconnect before it calls the
\* next adapter's.
MgrDisconnectSequential ==
    /\ nCalls < MaxCalls
    /\ discState = "idle"
    /\ ~mqttEnding
    /\ nCalls' = nCalls + 1
    /\ discCall' = nCalls + 1
    /\ UNCHANGED overlapped
    /\ \E m \in {"resolved", "pending"} :
          /\ IF "MQTT" \in adapters THEN MqttDisconnect(m)
             ELSE m = "resolved" /\ UNCHANGED mqttVars
          /\ IF m = "pending"
             THEN /\ discState' = "waiting"
                  /\ UNCHANGED <<wsVars, restVars, lastCall>>
             ELSE /\ IF "WebSocket" \in adapters THEN WsDisconnectAll ELSE UNCHANGED wsVars
                  /\ IF "REST" \in adapters THEN RestDisconnectAll ELSE UNCHANGED restVars
                  /\ discState' = "settled"
                  /\ UNCHANGED lastCall
    /\ UNCHANGED <<adapters, deviceAdapterMap, regCalls, regLog, dataVars, connVars, extVars>>

\* AdapterManager.disconnect up to its await.  The adapters are visited in
\* the order they were added (MQTT, WebSocket, REST); `.catch` on a return
\* value that is no promise throws, which ends the function with a rejection
\* before the await and before the routing table is cleared.
MgrDisconnect ==
    /\ nCalls < MaxCalls
    /\ discState = "idle"
    /\ ~mqttEnding
    /\ nCalls' = nCalls + 1
    /\ discCall' = nCalls + 1
    /\ overlapped' = overlapped \cup
           {[device_id |-> c.device.device_id, protocol |-> c.device.protocol] : c \in regCalls}
    /\ \E m \in {"resolved", "pending"} :
          /\ IF "MQTT" \in adapters THEN MqttDisconnect(m)
             ELSE m = "resolved" /\ UNCHANGED mqttVars
          /\ IF "WebSocket" \in adapters THEN WsDisconnectAll ELSE UNCHANGED wsVars
          /\ IF "REST" \in adapters THEN RestDisconnectAll ELSE UNCHANGED restVars
          /\ IF \E p \in adapters : DisconnectReturns(p) # "promise"
             THEN /\ discState' = "idle"
                  /\ lastCall' = Outcome(nCalls + 1, "disconnect", "", "TypeError", <<>>, "")
             ELSE /\ discState' = IF m = "pending" THEN "waiting" ELSE "settled"
                  /\ UNCHANGED lastCall
    /\ UNCHANGED <<adapters, deviceAdapterMap, regCalls, regLog, dataVars, connVars, extVars>>

\* The continuation of a disconnect whose adapter promises were all resolved
\* when it awaited them.
MgrDisconnectDone ==
    /\ discState = "settled"
    /\ DisconnectContinuation
    /\ UNCHANGED <<adapters, regCalls, discCall, nCalls, overlapped>>
    /\ UNCHANGED <<mqttVars, wsVars, restVars, dataVars, connVars, extVars>>

\* ------------------------------------------------------------ I/O events
MqttSubscribed(sub, ok) ==
    /\ ~MicrotaskPending
    /\ MqttSubscribeCallback(sub, ok)
    /\ UNCHANGED <<mgrVars, wsVars, restVars, dataVars, connVars, extVars>>

\* client.end calls back; a disconnect waiting for it continues in the same
\* turn.
MqttEnded ==
    /\ ~MicrotaskPending
    /\ mqttEnding
    /\ MqttEndCallback
    /\ IF discState = "waiting" THEN DisconnectContinuation
       ELSE IF lastCall.op = "adapter.disconnect" /\ lastCall.result = "pending"
       THEN /\ lastCall' = [lastCall EXCEPT !.result = "resolved"]
            /\ UNCHANGED <<discState, deviceAdapterMap, regLog>>
       ELSE UNCHANGED <<discState, deviceAdapterMap, regLog, lastCall>>
    /\ UNCHANGED <<adapters, regCalls, discCall, nCalls, overlapped, wsVars, restVars, dataVars,
                   connVars, extVars>>

WsConnected(i) ==
    /\ ~MicrotaskPending
    /\ WsConnectEvent(i)
    /\ UNCHANGED <<mgrVars, mqttVars, restVars, dataVars, connVars, extVars>>

\* A tick of a device's setInterval timer: the poll request is sent.
RestTimerFires(id) ==
    /\ ~MicrotaskPending
    /\ restTimers[id] > 0
    /\ restPolls[id] < MaxPolls
    /\ restPolls' = [restPolls EXCEPT ![id] = @ + 1]
    /\ UNCHANGED <<restDeviceMap, restPollingIntervals, restTimers, restDisconnected>>
    /\ UNCHANGED <<mgrVars, mqttVars, wsVars, dataVars, connVars>>

RestTimerTick(id) == RestTimerFires(id) /\ UNCHANGED extVars

\* The answer to a poll request: a DataPoint for the timer's device is handed
\* to the inbound-data callback, or the error is logged.
RestPollAnswered(id, ok) ==
    /\ ~MicrotaskPending
    /\ restPolls[id] > 0
    /\ restPolls' = [restPolls EXCEPT ![id] = @ - 1]
    /\ IF ok
       THEN OnDataCallback(DataPoint(id, "REST", PollBody))
       ELSE UNCHANGED dataVars
    /\ UNCHANGED <<restDeviceMap, restPollingIntervals, restTimers, restDisconnected>>
    /\ UNCHANGED <<mgrVars, mqttVars, wsVars, connVars>>

RestPollResponse(id, ok) == RestPollAnswered(id, ok) /\ UNCHANGED extVars

Next ==
    \/ MgrConnect
    \/ \E device \in ValidRecords : RegisterDevice(device)
    \/ \E c \in regCalls : RegisterDeviceDone(c)
    \/ \E c \in regCalls, ok \in BOOLEAN : RestProbeResponse(c, ok)
    \/ \E id \in Devices : SendCommand(id)
    \/ \E id \in Devices : FetchData(id)
    \/ MgrDisconnect
    \/ MgrDisconnectDone
    \/ \E sub \in mqttPendingSubs, ok \in BOOLEAN : MqttSubscribed(sub, ok)
    \/ MqttEnded
    \/ \E i \in 1..MaxSockets : WsConnected(i)
    \/ \E id \in Devices : RestTimerTick(id)
    \/ \E id \in Devices, ok \in BOOLEAN : RestPollResponse(id, ok)

Spec == Init /\ [][Next]_vars

TypeOK ==
    /\ adapters \subseteq Protocols
    /\ deviceAdapterMap \in [Devices -> Protocols \cup {None}]
    /\ discState \in {"idle", "waiting", "settled"}
    /\ nCalls \in 0..MaxCalls
    /\ mqttClient \in {"null", "open"}
    /\ mqttSubscriptions \in [Topics -> Devices \cup {None}]
    /\ wsConnections \in [Urls -> 0..MaxSockets]
    /\ restTimers \in [Devices -> 0..1]
    /\ restPolls \in [Devices -> 0..MaxPolls]
    /\ nData \in 0..1
    /\ mqttSessions \in 0..MaxSessions
    /\ mqttConnecting \in {"none", "pending", "connected", "failed"}
    /\ connState \in {"idle", "waiting", "settled", "rejecting"}

\* ------------------------------------------------------ inbound messages
\* Payload texts, as the tokens of the text.
Payloads ==
    {<<"{", "temperature", ":", "20.5", "}">>,
     <<"{", "}">>,
     <<"{", "temperature", ":">>,
     <<"null">>}

JsonKeys == {"temperature", "target"}
JsonNumbers == {"20.5", "40.0"}

\* What JSON.parse throws on a text that is no JSON.
SyntaxError == [kind |-> "SyntaxError", fields |-> {}]

\* The members of an object, from a key on, up to the closing brace.
RECURSIVE ParseMembers(_, _)
ParseMembers(toks, acc) ==
    IF Len(toks) >= 4 /\ toks[1] \in JsonKeys /\ toks[2] = ":" /\ toks[3] \in JsonNumbers
    THEN IF toks[4] = "}" /\ Len(toks) = 4
         THEN JsonObject(acc \cup {<<toks[1], toks[3]>>})
         ELSE IF toks[4] = ","
         THEN ParseMembers(SubSeq(toks, 5, Len(toks)), acc \cup {<<toks[1], toks[3]>>})
         ELSE SyntaxError
    ELSE SyntaxError

\* JSON.parse of a text: the decoded value, or SyntaxError for what is thrown.
JsonParse(toks) ==
    IF toks = <<"null">> THEN JsonNull
    ELSE IF toks = <<"{", "}">> THEN JsonObject({})
    ELSE IF Len(toks) >= 1 /\ toks[1] = "{" THEN ParseMembers(Tail(toks), {})
    ELSE SyntaxError

\* The payloads that decode to a mapping, and those that do not decode.
WellFormed == {pl \in Payloads : JsonParse(pl).kind = "object"}
Malformed == {pl \in Payloads : JsonParse(pl) = SyntaxError}

\* The callback is invoked once for each DataPoint of the sequence.
Deliver(dps) ==
    /\ lastData' = IF dps = <<>> THEN lastData ELSE dps[Len(dps)]
    /\ nData' = (nData + Len(dps)) % 2

\* A bus handler that takes a message on an unknown topic to be the first
\* device's.
MqttResolveDefault(topic) ==
    IF mqttSubscriptions[topic] = None THEN "d1" ELSE mqttSubscriptions[topic]

\* The device a bus message belongs to: the one its topic is mapped to, if the
\* adapter holds that device; None otherwise.
MqttResolve(topic) ==
    IF mqttSubscriptions[topic] = None THEN None
    ELSE IF mqttDeviceMap[mqttSubscriptions[topic]] = NoDevice THEN None
    ELSE mqttSubscriptions[topic]

\* A bus handler without its try block: what JSON.parse throws leaves the
\* handler.
MqttOnMessageNoCatch(topic, payload) ==
    IF MqttResolve(topic) = None
    THEN [outcome |-> "unresolved", raised |-> FALSE, delivered |-> <<>>]
    ELSE IF JsonParse(payload) = SyntaxError
    THEN [outcome |-> "malformed", raised |-> TRUE, delivered |-> <<>>]
    ELSE [outcome |-> "delivered", raised |-> FALSE,
          delivered |-> <<DataPoint(MqttResolve(topic), "MQTT", JsonParse(payload))>>]

\* The 'message' handler of MqttAdapter: what it hands to the callback and
\* whether an exception leaves it.  The whole body is in a try block.
MqttOnMessage(topic, payload) ==
    IF MqttResolve(topic) = None
    THEN [outcome |-> "unresolved", raised |-> FALSE, delivered |-> <<>>]
    ELSE IF JsonParse(payload) = SyntaxError
    THEN [outcome |-> "malformed", raised |-> FALSE, delivered |-> <<>>]
    ELSE [outcome |-> "delivered", raised |-> FALSE,
          delivered |-> <<DataPoint(MqttResolve(topic), "MQTT", JsonParse(payload))>>]

\* WebSocketAdapter.findDeviceIdByUrl: the first device of deviceMap with the
\* url; any device with the url may be the first.
WsResolve(url) ==
    {d \in Devices : wsDeviceMap[d] # NoDevice
                     /\ wsDeviceMap[d].connection_details.websocket_url = url}

\* The 'message' handler of a connection, for the device findDeviceIdByUrl
\* returned (None: none).  Only utf8 messages are looked at; the payload is
\* parsed before the device is looked up, all of it in a try block.
WsOnMessage(kind, payload, deviceId) ==
    IF kind # "utf8"
    THEN [outcome |-> "ignored", raised |-> FALSE, delivered |-> <<>>]
    ELSE IF JsonParse(payload) = SyntaxError
    THEN [outcome |-> "malformed", raised |-> FALSE, delivered |-> <<>>]
    ELSE IF deviceId = None
    THEN [outcome |-> "unresolved", raised |-> FALSE, delivered |-> <<>>]
    ELSE [outcome |-> "delivered", raised |-> FALSE,
          delivered |-> <<DataPoint(deviceId, "WebSocket", JsonParse(payload))>>]

\* A message arrives on a client of the bus adapter.
MqttMessageHandled(topic, payload) ==
    /\ ~MicrotaskPending
    /\ mqttSessions > 0
    /\ Deliver(MqttOnMessage(topic, payload).delivered)
    /\ lastInbound' = [protocol |-> "MQTT", outcome |-> MqttOnMessage(topic, payload).outcome]
    /\ UNCHANGED <<mgrVars, mqttVars, wsVars, restVars, mqttConnecting, connState, lastPublish>>

MqttMessage(topic, payload) == MqttMessageHandled(topic, payload) /\ UNCHANGED extVars

\* A message arrives on an open connection of the stream adapter.
WsMessageHandled(i, kind, payload) ==
    /\ ~MicrotaskPending
    /\ wsSockets[i].st = "open"
    /\ \E d \in IF WsResolve(wsSockets[i].url) = {} THEN {None} ELSE WsResolve(wsSockets[i].url) :
          /\ Deliver(WsOnMessage(kind, payload, d).delivered)
          /\ lastInbound' = [protocol |-> "WebSocket",
                             outcome |-> WsOnMessage(kind, payload, d).outcome]
    /\ UNCHANGED <<mgrVars, mqttVars, wsVars, restVars, mqttConnecting, connState, lastPublish>>

WsMessage(i, kind, payload) == WsMessageHandled(i, kind, payload) /\ UNCHANGED extVars

\* ------------------------------------------------- AdapterManager.connect
\* A registry whose connect leaves an adapter's rejection as it is.
ConnectUncaught(st) == st

\* `.catch(err => Promise.resolve())` on the promise of adapter.connect().
ConnectCaught(st) == IF st = "rejected" THEN "resolved" ELSE st

\* MqttAdapter.connect as AdapterManager.connect calls it: mqtt.connect makes
\* the client, or throws and the promise is rejected in the same run.
MqttConnectCall(threw) ==
    IF threw
    THEN /\ mqttConnecting' = "failed"
         /\ UNCHANGED mqttVars
    ELSE /\ mqttConnecting' = "pending"
         /\ MqttConnect

\* AdapterManager.connect after `await Promise.all(...)`; st is how the
\* awaited promise settled.
ConnectContinuation(st) ==
    /\ connState' = "idle"
    /\ lastCall' = Outcome(0, "connect", "", IF st = "resolved" THEN "ok" ELSE "rejected",
                           <<>>, "")

\* AdapterManager.connect up to its await, its outcome followed: connect is
\* called on every adapter that has the method, which is MqttAdapter alone.
ConnectAll ==
    /\ connState = "idle"
    /\ mqttSessions < MaxSessions
    /\ IF "MQTT" \in adapters
       THEN \E threw \in BOOLEAN : MqttConnectCall(threw)
       ELSE UNCHANGED <<mqttVars, mqttConnecting>>
    /\ connState' =
           IF mqttConnecting' = "pending" /\ "MQTT" \in adapters THEN "waiting"
           ELSE IF "MQTT" \in adapters /\ ConnectCaught("rejected") = "rejected" THEN "rejecting"
           ELSE "settled"
    /\ UNCHANGED <<mgrVars, wsVars, restVars, dataVars, lastPublish, lastInbound, extVars>>

\* The continuation of a connect whose promises were settled when it awaited
\* them.
ConnectAllDone ==
    /\ connState \in {"settled", "rejecting"}
    /\ ConnectContinuation(IF connState = "settled" THEN "resolved" ELSE "rejected")
    /\ UNCHANGED <<adapters, deviceAdapterMap, regCalls, discState, discCall, nCalls,
                   overlapped, regLog>>
    /\ UNCHANGED <<mqttVars, wsVars, restVars, dataVars, mqttConnecting, lastPublish, lastInbound, extVars>>

\* The client's 'connect' or 'error' event settles the promise of
\* MqttAdapter.connect; the connect waiting for it continues in the same turn.
MqttConnectEvent(ok) ==
    /\ ~MicrotaskPending
    /\ mqttConnecting = "pending"
    /\ mqttClient = "open"
    /\ ~mqttEnding
    /\ mqttConnecting' = IF ok THEN "connected" ELSE "failed"
    /\ IF connState = "waiting"
       THEN ConnectContinuation(ConnectCaught(IF ok THEN "resolved" ELSE "rejected"))
       ELSE UNCHANGED <<connState, lastCall>>
    /\ UNCHANGED <<adapters, deviceAdapterMap, regCalls, discState, discCall, nCalls,
                   overlapped, regLog>>
    /\ UNCHANGED <<mqttVars, wsVars, restVars, dataVars, lastPublish, lastInbound, extVars>>

\* --------------------------------------------- calls on an adapter itself
\* What adapter.disconnect(id) does; id "" is the call without a device id.
\* MqttAdapter.disconnect takes no parameter.
AdapterDisconnectRun(p, id, settled) ==
    CASE p = "MQTT" -> MqttDisconnect(settled) /\ UNCHANGED <<wsVars, restVars>>
      [] p = "WebSocket" ->
            /\ settled = "resolved"
            /\ IF id = "" THEN WsDisconnectAll ELSE WsDisconnectDevice(id)
            /\ UNCHANGED <<mqttVars, restVars>>
      [] p = "REST" ->
            /\ settled = "resolved"
            /\ IF id = "" THEN RestDisconnectAll ELSE RestDisconnectDevice(id)
            /\ UNCHANGED <<mqttVars, wsVars>>

\* adapter.disconnect(id) called on the adapter of protocol p; the result is
\* what the caller gets back: a promise (resolved or pending) or undefined.
AdapterDisconnect(p, id) ==
    /\ nCalls < MaxCalls
    /\ p \in adapters
    /\ discState = "idle"
    /\ ~mqttEnding
    /\ nCalls' = nCalls + 1
    /\ \E settled \in {"resolved", "pending"} :
          /\ AdapterDisconnectRun(p, id, settled)
          /\ lastCall' = Outcome(nCalls + 1, "adapter.disconnect", id,
                                 IF DisconnectReturns(p) = "promise" THEN settled
                                 ELSE DisconnectReturns(p),
                                 <<p>>, "")
    /\ UNCHANGED <<adapters, deviceAdapterMap, regCalls, discState, discCall, overlapped, regLog>>
    /\ UNCHANGED <<dataVars, connVars, extVars>>

\* The command envelopes a caller may pass; JsonNull stands for parameters
\* that are absent.
Commands ==
    {[device_id |-> d, command |-> "setTemperature", parameters |-> ps, commandId |-> "k1"] :
        d \in Devices, ps \in {JsonNull, JsonObject({}), JsonObject({<<"target", "40.0">>})}}

\* A bus adapter that publishes the envelope as it came.
CommandBodyWhole(command) == command

\* The object MqttAdapter.sendCommand serialises into the message.
CommandBody(command) ==
    [command |-> command.command,
     parameters |-> IF command.parameters = JsonNull THEN JsonObject({})
                    ELSE command.parameters]

\* The messages MqttAdapter.sendCommand hands to client.publish.
MqttPublishes(command) ==
    IF MqttSendCommand(command.device_id).result = "sent"
    THEN <<[topic |-> MqttSendCommand(command.device_id).tx, body |-> CommandBody(command)]>>
    ELSE <<>>

\* MqttAdapter.sendCommand(command) called on the adapter.
MqttSendCommandCall(command) ==
    /\ nCalls < MaxCalls
    /\ "MQTT" \in adapters
    /\ nCalls' = nCalls + 1
    /\ lastCall' = Outcome(nCalls + 1, "adapter.sendCommand", command.device_id,
                           MqttSendCommand(command.device_id).result, <<"MQTT">>,
                           MqttSendCommand(command.device_id).tx)
    /\ lastPublish' =
           IF MqttPublishes(command) = <<>> THEN NoPublish
           ELSE [count |-> Len(MqttPublishes(command)),
                 topic |-> MqttPublishes(command)[1].topic,
                 body |-> MqttPublishes(command)[1].body]
    /\ UNCHANGED <<adapters, deviceAdapterMap, regCalls, discState, discCall, overlapped, regLog>>
    /\ UNCHANGED <<mqttVars, wsVars, restVars, dataVars, mqttConnecting, connState, lastInbound, extVars>>

\* The records registered in the behaviours of the adapters' own calls.
AdapterRecords ==
    {r \in ValidRecords :
        \/ r.protocol = "MQTT" /\ r.connection_details.data = "t1"
                               /\ r.connection_details.control = "c1"
        \/ r.protocol = "WebSocket" /\ r.connection_details.websocket_url = "u1"}

AdapterNext ==
    \/ ConnectAll
    \/ ConnectAllDone
    \/ \E ok \in BOOLEAN : MqttConnectEvent(ok)
    \/ \E device \in AdapterRecords : RegisterDevice(device)
    \/ \E c \in regCalls : RegisterDeviceDone(c)
    \/ \E p \in Protocols, id \in Devices \cup {""} : AdapterDisconnect(p, id)
    \/ \E command \in Commands : MqttSendCommandCall(command)
    \/ MgrDisconnect
    \/ MgrDisconnectDone
    \/ \E sub \in mqttPendingSubs, ok \in BOOLEAN : MqttSubscribed(sub, ok)
    \/ MqttEnded
    \/ \E i \in 1..MaxSockets : WsConnected(i)

AdapterSpec == Init /\ [][AdapterNext]_vars

\* The messages a stream connection may carry: text of any payload, or binary.
WsMessages ==
    {[kind |-> "utf8", payload |-> pl] : pl \in Payloads}
    \cup {[kind |-> "binary", payload |-> <<>>]}

\* A registry with the two push transports, as the inbound handlers see it.
InboundInit == Init /\ adapters = {"MQTT", "WebSocket"}

InboundNext ==
    \/ MgrConnect
    \/ \E device \in AdapterRecords : RegisterDevice(device)
    \/ \E c \in regCalls : RegisterDeviceDone(c)
    \/ \E p \in Protocols, id \in Devices \cup {""} : AdapterDisconnect(p, id)
    \/ \E sub \in mqttPendingSubs, ok \in BOOLEAN : MqttSubscribed(sub, ok)
    \/ MqttEnded
    \/ \E i \in 1..MaxSockets : WsConnected(i)
    \/ \E topic \in Topics, payload \in Payloads : MqttMessage(topic, payload)
    \/ \E i \in 1..MaxSockets, m \in WsMessages : WsMessage(i, m.kind, m.payload)

InboundSpec == InboundInit /\ [][InboundNext]_vars

\* ------------------------------------------------- connections that close
\* The 'close' event of a stored connection: the handler reports the
\* disconnection to the connection callback and leaves the maps as they are.
WsClosed(i) ==
    /\ ~MicrotaskPending
    /\ wsSockets[i].st = "open"
    /\ wsSockets' = [wsSockets EXCEPT ![i].st = "closed"]
    /\ UNCHANGED <<wsDeviceMap, wsConnections>>
    /\ UNCHANGED <<mgrVars, mqttVars, restVars, dataVars, connVars, extVars>>

\* The stream devices registered.
StreamRecords == {r \in ValidRecords : r.protocol = "WebSocket"}

\* A registry with the stream adapter.
StreamInit == Init /\ adapters = {"WebSocket"}

StreamNext ==
    \/ \E device \in StreamRecords : RegisterDevice(device)
    \/ \E c \in regCalls : RegisterDeviceDone(c)
    \/ \E i \in 1..MaxSockets : WsConnected(i)
    \/ \E i \in 1..MaxSockets : WsClosed(i)
    \/ \E id \in Devices : SendCommand(id)

StreamSpec == StreamInit /\ [][StreamNext]_vars

\* ------------------------------------------- the data callbacks given
\* The options a registry may be constructed with: a callback at the top
\* level or none, and a callback inside the options block of some adapters.
CallbackOptions == [top : BOOLEAN, blocks : SUBSET Protocols]

\* AdapterManager.handleData calls this.onDataCallback, which the constructor
\* takes from the top level of the options (a function that does nothing if
\* there is none).  initializeAdapters spreads an adapter's options block and
\* then sets onDataCallback to handleData, so the callback the adapter of
\* protocol p calls is handleData whatever the block holds.
Invoked(p) == [protocol |-> p, top |-> cbOptions.top, block |-> FALSE]

\* The adapter of protocol p has produced a data point in this step.
Produces(p) ==
    /\ cbInvoked' = IF nData' # nData THEN Invoked(p) ELSE cbInvoked
    /\ UNCHANGED <<cmdPending, clockVars, svcVars, cbOptions, otVars>>

CbPollResponse(id, ok) == RestPollAnswered(id, ok) /\ Produces("REST")
CbMqttMessage(topic, payload) == MqttMessageHandled(topic, payload) /\ Produces("MQTT")
CbWsMessage(i, kind, payload) == WsMessageHandled(i, kind, payload) /\ Produces("WebSocket")

\* One device of each transport.
CallbackRecords ==
    {r \in ValidRecords :
        /\ r.device_id = "d1"
        /\ \/ r.protocol = "MQTT" /\ r.connection_details.data = "t1"
                                  /\ r.connection_details.control = "c1"
           \/ r.protocol = "WebSocket" /\ r.connection_details.websocket_url = "u1"
           \/ r.protocol = "REST" /\ r.connection_details.base_url = "b1"
                                  /\ r.connection_details.polling_interval # 0}

\* A registry made with the three options blocks.
CallbackInit == Constructed /\ adapters = Protocols /\ cbOptions \in CallbackOptions

CallbackNext ==
    \/ MgrConnect
    \/ \E device \in CallbackRecords : RegisterDevice(device)
    \/ \E c \in regCalls : RegisterDeviceDone(c)
    \/ \E c \in regCalls, ok \in BOOLEAN : RestProbeResponse(c, ok)
    \/ \E sub \in mqttPendingSubs, ok \in BOOLEAN : MqttSubscribed(sub, ok)
    \/ \E i \in 1..MaxSockets : WsConnected(i)
    \/ \E id \in Devices : RestTimerTick(id)
    \/ \E id \in Devices, ok \in BOOLEAN : CbPollResponse(id, ok)
    \/ \E topic \in Topics, payload \in WellFormed : CbMqttMessage(topic, payload)
    \/ \E i \in 1..MaxSockets, payload \in WellFormed : CbWsMessage(i, "utf8", payload)

CallbackSpec == CallbackInit /\ [][CallbackNext]_vars

\* ------------------------------------------------ commands, followed up
\* adapter.deviceMap of the adapter of protocol p.
DeviceMapOf(p) ==
    CASE p = "MQTT" -> mqttDeviceMap
      [] p = "WebSocket" -> wsDeviceMap
      [] p = "REST" -> restDeviceMap

\* The messages adapter.sendCommand hands to its transport: client.publish on
\* the control topic, connection.sendUTF on the connection of the url,
\* axios.post to the base url.  The body is built the same way by all three.
Transmits(p, command) ==
    IF AdapterSendCommand(p, command.device_id).result = "sent"
    THEN <<[topic |-> AdapterSendCommand(p, command.device_id).tx,
            body |-> CommandBody(command)]>>
    ELSE <<>>

\* The state of the promise adapter.sendCommand returns when its synchronous
\* run ends: rejected by a failed check or a throw; resolved right after
\* sendUTF; pending until publish calls back or the HTTP request is answered.
SendSettles(p, result) ==
    IF result # "sent" THEN "rejected"
    ELSE IF p = "WebSocket" THEN "resolved"
    ELSE "pending"

\* The run of adapter.sendCommand(command) on the adapter of protocol p, for
\* call number n of operation op.
SendCommandRun(n, op, p, command) ==
    LET r == AdapterSendCommand(p, command.device_id)
        tx == Transmits(p, command)
    IN  /\ lastCall' = Outcome(n, op, command.device_id, r.result, <<p>>, r.tx)
        /\ lastPublish' =
               IF tx = <<>> THEN NoPublish
               ELSE [count |-> Len(tx), topic |-> tx[1].topic, body |-> tx[1].body]
        /\ cmdPending' =
               IF SendSettles(p, r.result) = "pending"
               THEN cmdPending \cup {[n |-> n, op |-> op, device_id |-> command.device_id,
                                      via |-> <<p>>, tx |-> r.tx]}
               ELSE cmdPending

\* adapter.sendCommand(command) called on the adapter of protocol p.
AdapterSendCommandCall(p, command) ==
    /\ nCalls < MaxCalls
    /\ p \in adapters
    /\ nCalls' = nCalls + 1
    /\ SendCommandRun(nCalls + 1, "adapter.sendCommand", p, command)
    /\ UNCHANGED <<adapters, deviceAdapterMap, regCalls, discState, discCall, overlapped, regLog>>
    /\ UNCHANGED <<mqttVars, wsVars, restVars, dataVars, mqttConnecting, connState, lastInbound>>
    /\ UNCHANGED <<clockVars, svcVars, lateVars>>

\* A registry that forgets a device whose command failed.
CommandSettledUnregisters(c, ok) ==
    /\ ~MicrotaskPending
    /\ c \in cmdPending
    /\ cmdPending' = cmdPending \ {c}
    /\ lastCall' = Outcome(c.n, c.op, c.device_id, IF ok THEN "ok" ELSE "CommandError",
                           c.via, c.tx)
    /\ deviceAdapterMap' = IF ok THEN deviceAdapterMap
                           ELSE [deviceAdapterMap EXCEPT ![c.device_id] = None]
    /\ UNCHANGED <<adapters, regCalls, discState, discCall, nCalls, overlapped, regLog>>
    /\ UNCHANGED <<mqttVars, wsVars, restVars, dataVars, mqttConnecting, connState, lastPublish,
                   lastInbound, clockVars, svcVars, lateVars>>

\* The callback of client.publish, or the answer to axios.post: the promise
\* of sendCommand is resolved, or rejected with the error; the handlers log
\* and settle and do nothing else.
CommandSettled(c, ok) ==
    /\ ~MicrotaskPending
    /\ c \in cmdPending
    /\ cmdPending' = cmdPending \ {c}
    /\ lastCall' = Outcome(c.n, c.op, c.device_id, IF ok THEN "ok" ELSE "CommandError",
                           c.via, c.tx)
    /\ UNCHANGED <<adapters, deviceAdapterMap, regCalls, discState, discCall, nCalls,
                   overlapped, regLog>>
    /\ UNCHANGED <<mqttVars, wsVars, restVars, dataVars, mqttConnecting, connState, lastPublish,
                   lastInbound, clockVars, svcVars, lateVars>>

\* AdapterManager.sendCommand(command), the promise it returns followed: the
\* promise of the adapter's sendCommand is returned as it is.
MgrSendCommandCall(command) ==
    LET via == SendCommandRoute(deviceAdapterMap, command.device_id) IN
    /\ nCalls < MaxCalls
    /\ nCalls' = nCalls + 1
    /\ IF via = <<>> \/ via[Len(via)] \notin adapters
       THEN /\ lastCall' = Outcome(nCalls + 1, "sendCommand", command.device_id,
                                   IF via = <<>> THEN "DeviceNotRegistered" ELSE "NoAdapter",
                                   <<>>, "")
            /\ UNCHANGED <<lastPublish, cmdPending>>
       ELSE SendCommandRun(nCalls + 1, "sendCommand", via[Len(via)], command)
    /\ UNCHANGED <<adapters, deviceAdapterMap, regCalls, discState, discCall, overlapped, regLog>>
    /\ UNCHANGED <<mqttVars, wsVars, restVars, dataVars, mqttConnecting, connState, lastInbound>>
    /\ UNCHANGED <<clockVars, svcVars, lateVars>>

\* The records registered in the behaviours of commands: a bus device with
\* or without a data topic and with or without a control topic, a stream
\* device, a polled device without a timer.
CommandRecords ==
    {r \in ValidRecords :
        \/ r.protocol = "MQTT" /\ r.connection_details.has_topics
                               /\ r.connection_details.data \in {"", "t1"}
        \/ r.protocol = "WebSocket" /\ r.connection_details.websocket_url = "u1"
        \/ r.protocol = "REST" /\ r.connection_details.base_url = "b1"
                               /\ r.connection_details.polling_interval = 0}

CommandNext ==
    \/ MgrConnect
    \/ \E device \in CommandRecords : RegisterDevice(device)
    \/ \E c \in regCalls : RegisterDeviceDone(c)
    \/ \E c \in regCalls, ok \in BOOLEAN : RestProbeResponse(c, ok)
    \/ \E p \in Protocols, command \in Commands : AdapterSendCommandCall(p, command)
    \/ \E command \in Commands : MgrSendCommandCall(command)
    \/ \E c \in cmdPending, ok \in BOOLEAN : CommandSettled(c, ok)
    \/ \E sub \in mqttPendingSubs, ok \in BOOLEAN : MqttSubscribed(sub, ok)
    \/ \E i \in 1..MaxSockets : WsConnected(i)

CommandSpec == Init /\ [][CommandNext]_vars

\* ------------------------------------------------------- polling in time
\* The time the model lets pass.
MaxTime == 3000

\* A timer that fires for the first time as soon as it is set.
TimerDueImmediate(t, interval) == t

\* setInterval(callback, interval) called at time t: the first tick is one
\* interval later, and each tick is one interval after the tick before.
TimerDue(t, interval) == t + interval

\* The interval the device's timer was set with.
PollingInterval(id) == restDeviceMap[id].connection_details.polling_interval

\* A read of the device is unanswered, or its timer is due and has not fired.
Outstanding(d) ==
    \/ \E c \in regCalls : c.st = "pending" /\ c.device.device_id = d
    \/ restPolls[d] > 0
    \/ restTimers[d] > 0 /\ timerDue[d] <= now

\* Time passes.
Advance ==
    /\ ~MicrotaskPending
    /\ now < MaxTime
    /\ now' = now + 500
    /\ lapsed' = [d \in Devices |-> lapsed[d] \/ Outstanding(d)]
    /\ UNCHANGED <<mgrVars, mqttVars, wsVars, restVars, dataVars, connVars>>
    /\ UNCHANGED <<cmdPending, fetchPending, timerDue, nCallbacks, svcVars, lateVars>>

\* The health probe is answered at the present time: startPolling sets the
\* timer then.
TimedProbeResponse(c, ok) ==
    /\ RestProbeSettles(c, ok)
    /\ timerDue' =
           IF ok /\ c.device.connection_details.polling_interval # 0
              /\ restDeviceMap[c.device.device_id] # NoDevice
           THEN [timerDue EXCEPT ![c.device.device_id] =
                    TimerDue(now, c.device.connection_details.polling_interval)]
           ELSE timerDue
    /\ lapsed' = [lapsed EXCEPT ![c.device.device_id] = @ \/ ~ok]
    /\ UNCHANGED <<cmdPending, fetchPending, now, nCallbacks, svcVars, lateVars>>

\* The device's timer fires, not before it is due, and is set again one
\* interval after the time it fired.
TimedTimerTick(id) ==
    /\ now >= timerDue[id]
    /\ RestTimerFires(id)
    /\ timerDue' = [timerDue EXCEPT ![id] = TimerDue(now, PollingInterval(id))]
    /\ UNCHANGED <<cmdPending, fetchPending, now, nCallbacks, lapsed, svcVars, lateVars>>

\* A poll request is answered.
TimedPollResponse(id, ok) ==
    /\ RestPollAnswered(id, ok)
    /\ nCallbacks' = IF ok THEN [nCallbacks EXCEPT ![id] = @ + 1] ELSE nCallbacks
    /\ lapsed' = [lapsed EXCEPT ![id] = @ \/ ~ok]
    /\ UNCHANGED <<cmdPending, fetchPending, now, timerDue, svcVars, lateVars>>

\* AdapterManager.fetchData(id), the promise it returns followed:
\* RestAdapter.fetchData sends a GET without a timeout, and its promise waits
\* for the answer.
MgrFetchDataCall(id) ==
    /\ FetchDataRun(id)
    /\ fetchPending' =
           IF lastCall'.result = "requested"
           THEN fetchPending \cup {[n |-> nCalls + 1, device_id |-> id]}
           ELSE fetchPending
    /\ UNCHANGED <<cmdPending, now, timerDue, nCallbacks, lapsed, svcVars, lateVars>>

\* The GET of a fetchData is answered: the promise is resolved with a
\* DataPoint, or rejected with the error.
FetchAnswered(c, ok) ==
    /\ ~MicrotaskPending
    /\ c \in fetchPending
    /\ fetchPending' = fetchPending \ {c}
    /\ lastCall' = Outcome(c.n, "fetchData", c.device_id, IF ok THEN "ok" ELSE "FetchError",
                           <<"REST">>, "")
    /\ UNCHANGED <<adapters, deviceAdapterMap, regCalls, discState, discCall, nCalls,
                   overlapped, regLog>>
    /\ UNCHANGED <<mqttVars, wsVars, restVars, dataVars, connVars>>
    /\ UNCHANGED <<cmdPending, now, timerDue, nCallbacks, lapsed, svcVars, lateVars>>

\* The polled devices registered: with a timer of 1000 ms, or without one.
PollRecords ==
    {r \in ValidRecords : r.protocol = "REST" /\ r.connection_details.base_url = "b1"}

\* A registry with the polled-http adapter.
PollInit == Init /\ adapters = {"REST"}

\* No registration of the id has been asked for.
NeverRegistered(id) ==
    /\ restDeviceMap[id] = NoDevice
    /\ \A c \in regCalls : c.device.device_id # id

\* Each device is registered once, at time 0.
PollNext ==
    \/ \E device \in PollRecords :
          now = 0 /\ NeverRegistered(device.device_id) /\ RegisterDevice(device)
    \/ \E c \in regCalls, ok \in BOOLEAN : TimedProbeResponse(c, ok)
    \/ \E id \in Devices : TimedTimerTick(id)
    \/ \E id \in Devices, ok \in BOOLEAN : TimedPollResponse(id, ok)
    \/ \E id \in Devices : MgrFetchDataCall(id)
    \/ \E c \in fetchPending, ok \in BOOLEAN : FetchAnswered(c, ok)
    \/ Advance

PollSpec == PollInit /\ [][PollNext]_vars

\* The program's own scheduling is fair: time passes and a due timer fires.
\* Nothing obliges the device to answer.
PollLiveSpec ==
    PollSpec /\ WF_vars(Advance) /\ \A id \in Devices : WF_vars(TimedTimerTick(id))

\* ------------------------------------------------- the device service
\* Everything that is not the device service's.
managerSide ==
    <<mgrVars, mqttVars, wsVars, restVars, dataVars, connVars, cmdPending, clockVars, lateVars>>

\* How an operation of the service ended.
Run(op, id, result, code) == [op |-> op, device_id |-> id, result |-> result, code |-> code]

\* this.devices.has(id)
Known(id) == svcDevices[id].status # "none"

\* this.deviceData.has(id), and the list under the id
HasData(id) == id \in DOMAIN deviceData
Stored(id) == IF HasData(id) THEN deviceData[id] ELSE <<>>

\* The points a device's list may hold.
RetentionCap == 1000

\* The points that arrive for a device, and those among the first that the
\* adapters' callback delivers.
MaxPoints == 1002
MaxHandled == 3

\* push, then shift once the list is over the cap
Retain(points, point) ==
    IF Len(points) + 1 > RetentionCap THEN Tail(Append(points, point)) ELSE Append(points, point)

\* The device after updateDeviceStatus / updateStatus: status, and lastSeen = new Date()
Seen(status) == [status |-> status, lastSeen |-> now]

\* DeviceService.registerDevice of the in-memory service
MemRegisterDevice(id) ==
    /\ IF Known(id)
       THEN /\ svcLast' = Run("registerDevice", id, "ValidationError", "")
            /\ UNCHANGED svcDevices
       ELSE /\ svcLast' = Run("registerDevice", id, "ok", "")
            /\ svcDevices' = [svcDevices EXCEPT ![id] = Seen("registered")]
    /\ UNCHANGED <<managerSide, dataPoints, deviceData, nArrived, dbDevices>>

\* DeviceService.processData: the n-th point of a device is the number n.
ProcessData(id) ==
    /\ nArrived[id] < MaxPoints
    /\ IF ~Known(id)
       THEN /\ svcLast' = Run("processData", id, "DeviceNotFoundError", "")
            /\ UNCHANGED <<svcDevices, deviceData, nArrived>>
       ELSE /\ svcDevices' = [svcDevices EXCEPT ![id] = Seen("online")]
            /\ nArrived' = [nArrived EXCEPT ![id] = @ + 1]
            /\ deviceData' = (id :> Retain(Stored(id), nArrived[id] + 1)) @@ deviceData
            /\ svcLast' = Run("processData", id, "ok", "")
    /\ UNCHANGED <<managerSide, dataPoints, dbDevices>>

\* DeviceService.handleDeviceData, the adapters' onDataCallback: the list is
\* read with deviceData.get(id), which is undefined for a device without one,
\* and the push on it throws.
HandleDeviceData(id) ==
    /\ nArrived[id] < MaxHandled
    /\ nArrived' = IF Known(id) THEN [nArrived EXCEPT ![id] = @ + 1] ELSE nArrived
    /\ IF ~HasData(id)
       THEN /\ svcLast' = Run("handleDeviceData", id, "TypeError", "")
            /\ UNCHANGED <<svcDevices, deviceData>>
       ELSE /\ deviceData' = (id :> Retain(deviceData[id], nArrived[id] + 1)) @@ deviceData
            /\ svcDevices' = IF Known(id) THEN [svcDevices EXCEPT ![id] = Seen("online")]
                             ELSE svcDevices
            /\ svcLast' = Run("handleDeviceData", id, "ok", "")
    /\ UNCHANGED <<managerSide, dataPoints, dbDevices>>

\* The points of one device are followed.
RetentionDevices == {"d1"}

RetentionNext ==
    \E id \in RetentionDevices :
        \/ MemRegisterDevice(id)
        \/ ProcessData(id)
        \/ HandleDeviceData(id)

\* The service makes its registry with the three adapters.
ServiceInit == Init /\ adapters = Protocols

RetentionSpec == ServiceInit /\ [][RetentionNext]_vars

\* The points the service keeps, and the time that passes, in the behaviours
\* of the service that keeps every point.
MaxStored == 2
MaxClock == 2

\* The timestamps the points carry.
Stamps == {1, 2}

\* A service whose callback takes a point only if it is newer than the last.
ServiceHandleDeviceDataInOrder(id, ts) ==
    /\ Len(dataPoints) < MaxStored
    /\ dataPoints' = Append(dataPoints, [deviceId |-> id, timestamp |-> ts])
    /\ svcDevices' =
           IF Known(id) /\ \A i \in 1..Len(dataPoints) : dataPoints[i].timestamp <= ts
           THEN [svcDevices EXCEPT ![id] = Seen("online")]
           ELSE svcDevices
    /\ svcLast' = Run("handleDeviceData", id, "ok", "")
    /\ UNCHANGED <<managerSide, deviceData, nArrived, dbDevices>>

\* DeviceService.handleDeviceData of the service that keeps every point: the
\* point is stored and a known device is online, seen now.
ServiceHandleDeviceData(id, ts) ==
    /\ Len(dataPoints) < MaxStored
    /\ dataPoints' = Append(dataPoints, [deviceId |-> id, timestamp |-> ts])
    /\ svcDevices' = IF Known(id) THEN [svcDevices EXCEPT ![id] = Seen("online")]
                     ELSE svcDevices
    /\ svcLast' = Run("handleDeviceData", id, "ok", "")
    /\ UNCHANGED <<managerSide, deviceData, nArrived, dbDevices>>

\* DeviceService.registerDevice: the Device is made and stored, then the
\* registry registers it.
ServiceRegisterDevice(device) ==
    /\ svcDevices' = [svcDevices EXCEPT ![device.device_id] = Seen("registered")]
    /\ RegisterDeviceRuns(device)
    /\ UNCHANGED <<cmdPending, clockVars, dataPoints, deviceData, nArrived, dbDevices, svcLast,
                   lateVars>>

\* DeviceService.getDeviceStatus: the status of a stored device, an error
\* for any other.
GetDeviceStatus(id) ==
    IF Known(id) THEN svcDevices[id].status ELSE "DeviceNotFound"

\* Device.updateStatus(status) on a stored device.
DeviceUpdateStatus(id, status) ==
    /\ Known(id)
    /\ svcDevices' = [svcDevices EXCEPT ![id] = Seen(status)]
    /\ UNCHANGED <<managerSide, dataPoints, deviceData, nArrived, dbDevices, svcLast>>

\* Time passes for the service.
ServiceTick ==
    /\ now < MaxClock
    /\ now' = now + 1
    /\ UNCHANGED <<mgrVars, mqttVars, wsVars, restVars, dataVars, connVars, cmdPending>>
    /\ UNCHANGED <<fetchPending, timerDue, nCallbacks, lapsed, svcVars, lateVars>>

\* The device the service registers: polled, without a timer.
ServiceRecords ==
    {r \in ValidRecords : /\ r.protocol = "REST"
                          /\ r.device_id = "d1"
                          /\ r.connection_details.base_url = "b1"
                          /\ r.connection_details.polling_interval = 0}

ServiceNext ==
    \/ \E device \in ServiceRecords : ServiceRegisterDevice(device)
    \/ \E c \in regCalls, ok \in BOOLEAN : RestProbeResponse(c, ok)
    \/ \E id \in Devices, ts \in Stamps : ServiceHandleDeviceData(id, ts)
    \/ \E id \in Devices, status \in {"offline", "error"} : DeviceUpdateStatus(id, status)
    \/ ServiceTick

ServiceSpec == ServiceInit /\ [][ServiceNext]_vars

\* ------------------------------------------- the service over the database
\* new DeviceError(message, originalError).code: the code of the error it
\* wraps, if it wraps one that has a code ("none": no error wrapped; "": an
\* error without a code).
DeviceErrorCode(original) ==
    IF original # "none"
    THEN IF original # "" THEN original ELSE "DEVICE_ERROR"
    ELSE "DEVICE_ERROR"

\* The operation failed with a DeviceError that wraps an error of the code.
Failed(op, id, original) == Run(op, id, "DeviceError", DeviceErrorCode(original))

\* DeviceService.registerDevice: the row is inserted (device_id is unique,
\* status defaults to offline), then the adapter manager initializes the
\* device's adapter.
StoreRegisterDevice(id, initialized) ==
    /\ IF dbDevices[id] # "none"
       THEN /\ svcLast' = Failed("registerDevice", id, "23505")
            /\ UNCHANGED dbDevices
       ELSE /\ dbDevices' = [dbDevices EXCEPT ![id] = "offline"]
            /\ svcLast' = IF initialized THEN Run("registerDevice", id, "ok", "")
                          ELSE Failed("registerDevice", id, "")
    /\ UNCHANGED <<managerSide, svcDevices, dataPoints, deviceData, nArrived>>

\* DeviceService.removeDevice: the adapter is removed, then the row is
\* archived.
RemoveDevice(id, removed) ==
    /\ IF dbDevices[id] = "none"
       THEN /\ svcLast' = Failed("removeDevice", id, DeviceErrorCode("none"))
            /\ UNCHANGED dbDevices
       ELSE IF ~removed
       THEN /\ svcLast' = Failed("removeDevice", id, "")
            /\ UNCHANGED dbDevices
       ELSE /\ dbDevices' = [dbDevices EXCEPT ![id] = "archived"]
            /\ svcLast' = Run("removeDevice", id, "ok", "")
    /\ UNCHANGED <<managerSide, svcDevices, dataPoints, deviceData, nArrived>>

\* deviceOperations.updateDevice(id, {status}) and statusOperations.recordStatus:
\* the status of the row, if there is one, is overwritten; the history row
\* of a device without a row breaks the foreign key.
StatusWritten(id, status) ==
    IF dbDevices[id] = "none" THEN dbDevices ELSE [dbDevices EXCEPT ![id] = status]

\* DeviceService.updateDeviceStatus (the later definition of the class)
StoreUpdateDeviceStatus(id, status) ==
    /\ dbDevices' = StatusWritten(id, status)
    /\ svcLast' = IF dbDevices[id] = "none" THEN Failed("updateDeviceStatus", id, "23503")
                  ELSE Run("updateDeviceStatus", id, "ok", "")
    /\ UNCHANGED <<managerSide, svcDevices, dataPoints, deviceData, nArrived>>

\* DeviceService.processData: the status is updated to online, then the point
\* is kept in the device's list.
StoreProcessData(id) ==
    /\ nArrived[id] < MaxHandled
    /\ dbDevices' = StatusWritten(id, "online")
    /\ IF dbDevices[id] = "none"
       THEN /\ svcLast' = Failed("processData", id, "23503")
            /\ UNCHANGED <<deviceData, nArrived>>
       ELSE /\ nArrived' = [nArrived EXCEPT ![id] = @ + 1]
            /\ deviceData' = (id :> Retain(Stored(id), nArrived[id] + 1)) @@ deviceData
            /\ svcLast' = Run("processData", id, "ok", "")
    /\ UNCHANGED <<managerSide, svcDevices, dataPoints>>

\* What adapter.testConnection() does: it resolves with true or false, or rejects.
Tests == {"true", "false", "rejects"}

\* DeviceService.validateDeviceConnection: a test that is not true throws a
\* DeviceError inside the try, and the catch wraps whatever was thrown.
ValidateDeviceConnection(id, test) ==
    /\ svcLast' =
           IF test = "true" THEN Run("validateDeviceConnection", id, "ok", "")
           ELSE IF test = "false"
           THEN Failed("validateDeviceConnection", id, DeviceErrorCode("none"))
           ELSE Failed("validateDeviceConnection", id, "")
    /\ UNCHANGED <<managerSide, svcDevices, dataPoints, deviceData, nArrived, dbDevices>>

StoreNext ==
    \/ \E id \in Devices, initialized \in BOOLEAN : StoreRegisterDevice(id, initialized)
    \/ \E id \in Devices, removed \in BOOLEAN : RemoveDevice(id, removed)
    \/ \E id \in Devices, status \in {"online", "error"} : StoreUpdateDeviceStatus(id, status)
    \/ \E id \in Devices : StoreProcessData(id)
    \/ \E id \in Devices, test \in Tests : ValidateDeviceConnection(id, test)

StoreSpec == ServiceInit /\ [][StoreNext]_vars

\* ------------------------------------------------------- the OT2 server
\* Everything but the state of the OT2 server.
besideOt == <<mgrVars, mqttVars, wsVars, restVars, dataVars, connVars, cmdPending, clockVars,
              svcVars, cbVars>>

\* The protocol files an experiment is run with.
ProtocolFiles == {"p1", "p2"}

\* How an operation of the server ended.
Ran(op, result) == [op |-> op, device_id |-> "", result |-> result, code |-> ""]

\* The 'connect' event of the server's client.
OtConnect ==
    /\ ~otConnected
    /\ otConnected' = TRUE
    /\ UNCHANGED <<experimentRunning, currentProtocol, otCalls, otResponses, otLast>>
    /\ UNCHANGED besideOt

\* OT2Server.runExperiment.
RunExperiment(protocol_file) ==
    /\ IF experimentRunning
       THEN /\ otLast' = Ran("runExperiment", "AlreadyRunning")
            /\ UNCHANGED <<experimentRunning, currentProtocol>>
       ELSE /\ experimentRunning' = TRUE
            /\ currentProtocol' = protocol_file
            /\ otLast' = Ran("runExperiment", "started")
    /\ UNCHANGED <<otConnected, otCalls, otResponses>>
    /\ UNCHANGED besideOt

\* OT2Server.stopExperiment.
StopExperiment ==
    /\ IF ~experimentRunning
       THEN /\ otLast' = Ran("stopExperiment", "NotRunning")
            /\ UNCHANGED <<experimentRunning, currentProtocol>>
       ELSE /\ experimentRunning' = FALSE
            /\ currentProtocol' = NoProtocol
            /\ otLast' = Ran("stopExperiment", "stopped")
    /\ UNCHANGED <<otConnected, otCalls, otResponses>>
    /\ UNCHANGED besideOt

\* OT2Server.handleMqttMessage for a message on the status topic.
OtStatusMessage(status) ==
    /\ otConnected
    /\ experimentRunning' = (status = "running")
    /\ otLast' = Ran("status", status)
    /\ UNCHANGED <<currentProtocol, otConnected, otCalls, otResponses>>
    /\ UNCHANGED besideOt

\* The getData call that comes next, 0 when the calls have all been made.
NextRequest ==
    IF \E r \in 1..MaxRequests : otCalls[r].st = "none"
    THEN CHOOSE r \in 1..MaxRequests :
             otCalls[r].st = "none" /\ \A q \in 1..(r - 1) : otCalls[q].st # "none"
    ELSE 0

\* OT2Server.getData: a timer is set, a listener for one 'data_received' is
\* added, and the get_data command is published if the client is connected.
GetData ==
    /\ NextRequest # 0
    /\ otCalls' = [otCalls EXCEPT ![NextRequest] =
                       [st |-> "pending", result |-> "", of |-> 0,
                        listening |-> TRUE, timer |-> TRUE]]
    /\ otResponses' = IF otConnected THEN otResponses \cup {NextRequest} ELSE otResponses
    /\ otLast' = Ran("getData", "pending")
    /\ UNCHANGED <<experimentRunning, currentProtocol, otConnected>>
    /\ UNCHANGED besideOt

\* resolve(value) of a call's promise: a settled promise stays as it is.
Resolve(call, result, of) ==
    IF call.st = "pending"
    THEN [call EXCEPT !.st = "resolved", !.result = result, !.of = of]
    ELSE call

\* emit('data_received', data): every listener is removed and run; it clears
\* its call's timer and resolves its call's promise with the data.
EmitDataReceived(calls, of) ==
    [r \in 1..MaxRequests |->
        IF calls[r].listening
        THEN [Resolve(calls[r], "data", of) EXCEPT !.listening = FALSE, !.timer = FALSE]
        ELSE calls[r]]

\* OT2Server.handleMqttMessage for a message on the response topic: the
\* device's answer to the get_data command of call r.
OtResponseMessage(r) ==
    /\ otConnected
    /\ r \in otResponses
    /\ otResponses' = otResponses \ {r}
    /\ otCalls' = EmitDataReceived(otCalls, r)
    /\ otLast' = Ran("response", "")
    /\ UNCHANGED <<experimentRunning, currentProtocol, otConnected>>
    /\ UNCHANGED besideOt

\* The timer of a getData call fires.
OtTimeout(r) ==
    /\ otCalls[r].timer
    /\ otCalls' = [otCalls EXCEPT ![r] = [Resolve(@, "timeout", 0) EXCEPT !.timer = FALSE]]
    /\ otLast' = Ran("timeout", "")
    /\ UNCHANGED <<experimentRunning, currentProtocol, otConnected, otResponses>>
    /\ UNCHANGED besideOt

OT2Next ==
    \/ OtConnect
    \/ \E protocol_file \in ProtocolFiles : RunExperiment(protocol_file)
    \/ StopExperiment
    \/ \E status \in {"running", "idle"} : OtStatusMessage(status)
    \/ GetData
    \/ \E r \in 1..MaxRequests : OtResponseMessage(r)
    \/ \E r \in 1..MaxRequests : OtTimeout(r)

\* The server beside a registry without adapters.
OT2Init == Init /\ adapters = {}

OT2Spec == OT2Init /\ [][OT2Next]_vars

\* ------------------------------------------------------------ properties
\* No registry call is in progress.
Quiescent == regCalls = {} /\ discState = "idle" /\ ~mqttEnding

\* The latest successful registration of the device, None without one.
Registered(d) ==
    IF regLog[d] = <<>> THEN None ELSE regLog[d][Len(regLog[d])].protocol

\* The adapter of protocol p holds a binding of device d: a device-map entry,
\* a topic mapping or a polling timer.
Holds(p, d) ==
    CASE p = "MQTT" ->
            mqttDeviceMap[d] # NoDevice \/ \E t \in Topics : mqttSubscriptions[t] = d
      [] p = "WebSocket" -> wsDeviceMap[d] # NoDevice
      [] p = "REST" -> restDeviceMap[d] # NoDevice \/ restTimers[d] > 0

\* The sockets to an endpoint that are open or being opened.
LiveSockets(u) ==
    {i \in 1..MaxSockets : wsSockets[i].url = u /\ wsSockets[i].st \in {"dialing", "open"}}

\* This step is the synchronous run of a call of operation op on the registry.
CallStep(op) == nCalls' = nCalls + 1 /\ lastCall'.n = nCalls' /\ lastCall'.op = op

\* C1: once AdapterManager.disconnect() has been called and has ended, the
\* routing table is empty, whatever adapters are configured and whatever each
\* adapter's disconnect returns.
C1_DisconnectEmptiesRouting ==
    lastCall.op = "disconnect" => deviceAdapterMap = EmptyRouting

\* C2: a registerDevice call that ends in failure (no protocol, no adapter,
\* missing connection details, a sync subscription error, a failed health
\* probe) leaves the routing table exactly as it was: no entry is added or
\* changed by the step in which the call fails.
C2_FailedRegisterLeavesRouting ==
    [][(lastCall' # lastCall /\ lastCall'.op = "registerDevice" /\ lastCall'.result # "ok")
          => deviceAdapterMap' = deviceAdapterMap]_vars

C2_Witness ==
    /\ lastCall.op = "registerDevice"
    /\ lastCall.result = "rejected"
    /\ lastCall.via = <<"REST">>
    /\ restDeviceMap[lastCall.device_id] # NoDevice
    /\ deviceAdapterMap[lastCall.device_id] = None

\* C3: a sendCommand for a device with a successful registration is handed
\* exactly once to the adapter keyed by the protocol of the record registered
\* last, and to no other adapter.
C3_SendCommandReachesOwner ==
    [][(CallStep("sendCommand") /\ Registered(lastCall'.device_id) # None)
          => lastCall'.via = <<Registered(lastCall'.device_id)>>]_vars

C3_Witness ==
    /\ lastCall.op = "sendCommand"
    /\ lastCall.via = <<"REST">>
    /\ lastCall.result = "sent"
    /\ Registered(lastCall.device_id) = "REST"

\* C4: a sendCommand for a device the routing table does not hold fails as
\* device-not-registered, calls no adapter, transmits nothing and leaves every
\* adapter's state as it was.
C4_UnregisteredSendFails ==
    [][(CallStep("sendCommand") /\ deviceAdapterMap[lastCall'.device_id] = None)
          => /\ lastCall'.result = "DeviceNotRegistered"
             /\ lastCall'.via = <<>>
             /\ lastCall'.tx = ""
             /\ UNCHANGED <<mqttVars, wsVars, restVars>>]_vars

C4_Witness ==
    /\ lastCall.op = "sendCommand"
    /\ lastCall.result = "DeviceNotRegistered"
    /\ \E d \in Devices : d # lastCall.device_id /\ deviceAdapterMap[d] # None

\* C5: fetchData for a device routed to a push-only adapter (MQTT, WebSocket)
\* ends in the same synchronous run as not supported, without calling the
\* adapter or sending anything.
C5_FetchOnPushOnlyUnsupported ==
    [][(CallStep("fetchData") /\ deviceAdapterMap[lastCall'.device_id] \in {"MQTT", "WebSocket"})
          => /\ lastCall'.result = "FetchNotSupported"
             /\ lastCall'.via = <<>>
             /\ lastCall'.tx = ""]_vars

C5_Witness ==
    /\ lastCall.op = "fetchData"
    /\ lastCall.result = "FetchNotSupported"
    /\ deviceAdapterMap[lastCall.device_id] \in {"MQTT", "WebSocket"}

\* C6: the stream adapter never has more than one connection to the same
\* endpoint open or being opened, so two devices registered with the same
\* websocket_url share one connection.
C6_OneConnectionPerEndpoint ==
    \A u \in Urls : Cardinality(LiveSockets(u)) <= 1

\* C7: once the polling adapter's disconnect covering a device has completed,
\* the inbound-data callback is not invoked for that device again (until it is
\* registered anew).
C7_NoCallbackAfterDisconnect ==
    [][(nData' # nData /\ lastData'.protocol = "REST")
          => lastData'.deviceId \notin restDisconnected]_vars

\* C8: when a registerDevice for a device ran while a disconnect was in
\* progress, then once no call is in progress the device is in the routing
\* table under that protocol if and only if that adapter holds its binding.
C8_RegisterVersusDisconnectConsistent ==
    Quiescent =>
        \A x \in overlapped :
            (deviceAdapterMap[x.device_id] = x.protocol) <=> Holds(x.protocol, x.device_id)

\* C9: after a sequence of successful registrations of a device and nothing
\* else, exactly one adapter holds a binding of the device, and it is the one
\* the routing table names.
C9_OneBindingPerDevice ==
    \A d \in Devices :
        (Quiescent /\ nCalls >= 1 /\ Len(regLog[d]) = nCalls)
            => {p \in Protocols : Holds(p, d)} = {deviceAdapterMap[d]}

\* C10: after the same record was registered successfully two or more times
\* and nothing else was called, the device has one routing entry and one set
\* of bindings: at most one topic mapping, one connection to its endpoint and
\* one polling timer.
C10_SameRecordTwiceIdempotent ==
    \A d \in Devices :
        (/\ Quiescent
         /\ nCalls >= 2
         /\ Len(regLog[d]) = nCalls
         /\ \A i \in 1..Len(regLog[d]) : regLog[d][i] = regLog[d][1])
            => /\ deviceAdapterMap[d] = regLog[d][1].protocol
               /\ Cardinality({t \in Topics : mqttSubscriptions[t] = d}) <= 1
               /\ \A u \in Urls : Cardinality(LiveSockets(u)) <= 1
               /\ restTimers[d] <= 1

\* C11: a payload that does not parse, arriving on the bus or on a stream
\* connection, leaves the message handler without an exception, is handed to
\* no callback and changes nothing the adapters hold; a well-formed payload
\* arriving next on the same topic or connection is delivered.
C11_MalformedPayloadDropped ==
    [][/\ \A t \in Topics, pl \in Malformed :
            MqttMessage(t, pl) =>
                /\ ~MqttOnMessage(t, pl).raised
                /\ UNCHANGED <<mqttVars, wsVars, restVars, dataVars, mgrVars>>
                /\ \A w \in WellFormed :
                      MqttResolve(t) # None =>
                          (MqttOnMessage(t, w).delivered)' =
                              <<DataPoint(MqttResolve(t), "MQTT", JsonParse(w))>>
       /\ \A i \in 1..MaxSockets, pl \in Malformed :
            WsMessage(i, "utf8", pl) =>
                /\ \A d \in Devices \cup {None} : ~WsOnMessage("utf8", pl, d).raised
                /\ UNCHANGED <<mqttVars, wsVars, restVars, dataVars, mgrVars>>
                /\ \A w \in WellFormed, d \in WsResolve(wsSockets[i].url) :
                      /\ (wsSockets[i].st)' = "open"
                      /\ d \in (WsResolve(wsSockets[i].url))'
                      /\ WsOnMessage("utf8", w, d).delivered =
                             <<DataPoint(d, "WebSocket", JsonParse(w))>>]_vars

C11_Witness ==
    /\ lastInbound.outcome = "malformed"
    /\ lastInbound.protocol = "MQTT"
    /\ \E t \in Topics : MqttResolve(t) # None
    /\ nData = 1

\* C12: whenever the inbound-data callback is invoked for the bus or the
\* stream transport, the deviceId of the DataPoint is a device the receiving
\* adapter holds at that moment (and, on the bus, one a topic is mapped to);
\* a message that resolves to no such device reaches no callback.
C12_UnresolvedMessageDropped ==
    [][(nData' # nData \/ lastData' # lastData) =>
          /\ lastData'.protocol = "MQTT" =>
                /\ mqttDeviceMap[lastData'.deviceId] # NoDevice
                /\ \E t \in Topics : mqttSubscriptions[t] = lastData'.deviceId
          /\ lastData'.protocol = "WebSocket" =>
                wsDeviceMap[lastData'.deviceId] # NoDevice]_vars

C12_Witness ==
    /\ lastInbound.outcome = "unresolved"
    /\ lastInbound.protocol = "WebSocket"
    /\ \E i \in 1..MaxSockets : wsSockets[i].st = "open"

\* C13: a well-formed message that resolves to a registered device invokes
\* the callback exactly once, with a DataPoint whose standard format has that
\* device as device_id, the receiving transport as protocol and the decoded
\* payload as parameters: {"temperature": 20.5} is reported as temperature 20.5.
C13_WellFormedMessageDelivered ==
    [][/\ \A t \in Topics, w \in WellFormed :
            (MqttMessage(t, w) /\ MqttResolve(t) # None) =>
                /\ nData' # nData
                /\ ToStandardFormat(lastData') =
                       [device_id |-> MqttResolve(t), protocol |-> "MQTT",
                        parameters |-> JsonParse(w)]
                /\ w = <<"{", "temperature", ":", "20.5", "}">> =>
                       lastData'.parameters.fields = {<<"temperature", "20.5">>}
       /\ \A i \in 1..MaxSockets, w \in WellFormed :
            (WsMessage(i, "utf8", w) /\ WsResolve(wsSockets[i].url) # {}) =>
                /\ nData' # nData
                /\ ToStandardFormat(lastData').device_id \in WsResolve(wsSockets[i].url)
                /\ ToStandardFormat(lastData').protocol = "WebSocket"
                /\ ToStandardFormat(lastData').parameters = JsonParse(w)]_vars

C13_Witness ==
    /\ lastInbound = [protocol |-> "MQTT", outcome |-> "delivered"]
    /\ ToStandardFormat(lastData) =
           [device_id |-> "d1", protocol |-> "MQTT",
            parameters |-> JsonObject({<<"temperature", "20.5">>})]

\* C14: AdapterManager.connect ends without an error whatever its adapters'
\* connects do: it returns ok when the last of them has settled, it waits only
\* while one is pending, and an adapter whose connect succeeded is connected.
C14_ConnectAllNeverFails ==
    [][/\ (connState # "idle" /\ connState' = "idle") =>
            /\ lastCall'.op = "connect"
            /\ lastCall'.result = "ok"
            /\ (mqttConnecting' = "connected" => mqttClient' = "open")
       /\ (connState' = "waiting" => mqttConnecting' = "pending")
       /\ connState' # "rejecting"]_vars

C14_Witness ==
    /\ connState = "idle"
    /\ lastCall.op = "connect"
    /\ lastCall.result = "ok"
    /\ mqttConnecting = "failed"

\* C15: the synchronous run of connect or disconnect calls every adapter
\* before anything is awaited: when it ends, the bus connect has been issued,
\* and each of the stream and polling adapters has been torn down even if the
\* bus adapter's disconnect is still pending.
C15_AllAdaptersCalledBeforeWaiting ==
    [][/\ (connState = "idle" /\ connState' # "idle" /\ "MQTT" \in adapters) =>
            mqttConnecting' \in {"pending", "failed"}
       /\ discCall' # discCall =>
            /\ ("MQTT" \in adapters /\ mqttClient # "null") => mqttEnding'
            /\ "WebSocket" \in adapters =>
                  /\ wsDeviceMap' = EmptyDeviceMap
                  /\ wsConnections' = [u \in Urls |-> 0]
            /\ "REST" \in adapters =>
                  /\ restDeviceMap' = EmptyDeviceMap
                  /\ restPollingIntervals' = {}]_vars

C15_Witness ==
    /\ discState = "waiting"
    /\ mqttEnding
    /\ "WebSocket" \in adapters
    /\ wsDeviceMap = EmptyDeviceMap
    /\ \E i \in 1..MaxSockets : wsSockets[i].st = "closed"

\* C16: a connect issued while the bus adapter is connected makes no further
\* client object and does not fail.
C16_ConnectIdempotent ==
    [][(/\ connState = "idle"
        /\ connState' # "idle"
        /\ mqttClient = "open"
        /\ mqttConnecting = "connected"
        /\ ~mqttEnding) =>
            /\ mqttSessions' = mqttSessions
            /\ mqttClient' = "open"
            /\ mqttConnecting' # "failed"]_vars

\* C17: what an adapter's disconnect hands back is always a promise, resolved
\* or to be resolved, with or without a device id.
C17_DisconnectAwaitable ==
    lastCall.op = "adapter.disconnect" => lastCall.result \in {"resolved", "pending"}

\* The adapter of protocol p holds nothing: no device, no topic or endpoint
\* mapping, no client or open connection, no timer.
AdapterEmpty(p) ==
    CASE p = "MQTT" ->
            /\ mqttDeviceMap = EmptyDeviceMap
            /\ mqttSubscriptions = [t \in Topics |-> None]
            /\ mqttClient = "null"
            /\ \A d \in Devices : MqttSendCommand(d).result = "DeviceNotFound"
      [] p = "WebSocket" ->
            /\ wsDeviceMap = EmptyDeviceMap
            /\ wsConnections = [u \in Urls |-> 0]
            /\ \A i \in 1..MaxSockets : wsSockets[i].st # "open"
            /\ \A d \in Devices : WsSendCommand(d).result = "DeviceNotFound"
      [] p = "REST" ->
            /\ restDeviceMap = EmptyDeviceMap
            /\ restPollingIntervals = {}
            /\ restTimers = [d \in Devices |-> 0]
            /\ \A d \in Devices : RestSendCommand(d).result = "DeviceNotFound"

\* C18: when an adapter's disconnect without a device id has completed, the
\* adapter holds nothing, and its sendCommand reports every device as not
\* found.
C18_DisconnectAllEmptiesAdapter ==
    [][\A p \in Protocols :
          (/\ lastCall' # lastCall
           /\ lastCall'.op = "adapter.disconnect"
           /\ lastCall'.device_id = ""
           /\ lastCall'.via = <<p>>
           /\ lastCall'.result \in {"resolved", "undefined"}) => AdapterEmpty(p)']_vars

\* C19: an adapter's disconnect(deviceId) leaves every other device the
\* adapter holds as it was: its device-map entry, its topic mappings or
\* timer, the shared broker session, and the outcome of a sendCommand to it.
C19_DisconnectDeviceFrame ==
    [][\A p \in Protocols, id \in Devices, e \in Devices :
          (/\ CallStep("adapter.disconnect")
           /\ lastCall'.device_id = id
           /\ lastCall'.via = <<p>>
           /\ e # id) =>
              /\ (p = "MQTT" /\ mqttDeviceMap[e] # NoDevice) =>
                    /\ mqttDeviceMap'[e] = mqttDeviceMap[e]
                    /\ mqttClient' = mqttClient
                    /\ mqttEnding' = mqttEnding
                    /\ \A t \in Topics : mqttSubscriptions[t] = e => mqttSubscriptions'[t] = e
              /\ (p = "WebSocket" /\ wsDeviceMap[e] # NoDevice) =>
                    /\ wsDeviceMap'[e] = wsDeviceMap[e]
                    /\ (WsSendCommand(e))' = WsSendCommand(e)
              /\ (p = "REST" /\ restDeviceMap[e] # NoDevice) =>
                    /\ restDeviceMap'[e] = restDeviceMap[e]
                    /\ restTimers'[e] = restTimers[e]]_vars

C21_SendCommandRejectsWithoutSending ==
    [][\A p \in Protocols, command \in Commands :
          LET device == DeviceMapOf(p)[command.device_id]
              absent ==
                  \/ p = "MQTT" /\ device.connection_details.control = ""
                  \/ p = "WebSocket" /\ wsConnections[device.connection_details.websocket_url] = 0
          IN  (AdapterSendCommandCall(p, command) /\ (device = NoDevice \/ absent)) =>
                 /\ lastCall'.result =
                        IF device = NoDevice THEN "DeviceNotFound"
                        ELSE IF p = "MQTT" THEN "DestinationMissing"
                        ELSE "NoConnection"
                 /\ lastPublish' = NoPublish
                 /\ cmdPending' = cmdPending
                 /\ UNCHANGED <<mqttVars, wsVars, restVars>>]_vars

C21_Witness ==
    /\ lastCall.op = "adapter.sendCommand"
    /\ lastCall.result = "DestinationMissing"
    /\ lastCall.via = <<"MQTT">>
    /\ mqttClient = "open"
    /\ mqttDeviceMap[lastCall.device_id] # NoDevice
    /\ lastPublish = NoPublish

\* The record lacks a connection detail its transport needs: the data topic
\* or the control topic of a bus device, the endpoint of a stream device, the
\* base URL of a polled device.
Incomplete(device) ==
    LET cd == device.connection_details IN
    CASE device.protocol = "MQTT" -> ~cd.has_topics \/ cd.data = "" \/ cd.control = ""
      [] device.protocol = "WebSocket" -> cd.websocket_url = ""
      [] device.protocol = "REST" -> cd.base_url = ""
      [] OTHER -> FALSE

\* C22: a registerDevice whose record lacks a connection detail the transport
\* needs is rejected by the adapter in the run of the call, and the adapter's
\* device map is left as it was.
C22_IncompleteRecordRejected ==
    [][\A device \in ValidRecords :
          (/\ RegisterDevice(device)
           /\ device.protocol \in adapters
           /\ Incomplete(device)) =>
              /\ lastCall'.n = nCalls'
              /\ lastCall'.result = "rejected"
              /\ DeviceMapOf(device.protocol)' = DeviceMapOf(device.protocol)]_vars

\* C23: a registerDevice whose record names no protocol, or a protocol no
\* adapter is bound to, ends in its own run with the error for that, and the
\* routing table, the calls in progress and all three adapters are as before.
C23_UnboundProtocolRejected ==
    [][\A device \in ValidRecords :
          (/\ RegisterDevice(device)
           /\ (device.protocol = "" \/ device.protocol \notin adapters)) =>
              /\ lastCall'.n = nCalls'
              /\ lastCall'.op = "registerDevice"
              /\ lastCall'.result =
                     IF device.protocol = "" THEN "ProtocolNotSpecified" ELSE "NoAdapter"
              /\ deviceAdapterMap' = deviceAdapterMap
              /\ regCalls' = regCalls
              /\ UNCHANGED <<mqttVars, wsVars, restVars>>]_vars

C23_Witness ==
    /\ lastCall.op = "registerDevice"
    /\ lastCall.result = "NoAdapter"
    /\ lastCall.n = 2
    /\ deviceAdapterMap[lastCall.device_id] # None

\* This step leaves the registration of device id as it was: its routing
\* entry, what the adapters hold, and the adapter a sendCommand for it goes to.
RegistrationUnaffected(id) ==
    /\ deviceAdapterMap' = deviceAdapterMap
    /\ UNCHANGED <<mqttVars, wsVars, restVars>>
    /\ SendCommandRoute(deviceAdapterMap, id)' = SendCommandRoute(deviceAdapterMap, id)

\* C24: a sendCommand of the registry for a routed device that fails, in its
\* own run (no client, no open connection) or when the transport calls back
\* with an error (publish error, HTTP error), ends with that error as the
\* call's outcome and leaves the device's registration unaffected.
C24_FailedCommandKeepsRegistration ==
    [][/\ \A command \in Commands :
            (/\ MgrSendCommandCall(command)
             /\ deviceAdapterMap[command.device_id] \in adapters
             /\ lastCall'.result # "sent") =>
                /\ lastCall'.n = nCalls'
                /\ lastCall'.device_id = command.device_id
                /\ lastCall'.result \in {"TypeError", "NoConnection", "DestinationMissing",
                                         "DeviceNotFound"}
                /\ RegistrationUnaffected(command.device_id)
       /\ \A c \in cmdPending :
            (CommandSettled(c, FALSE) /\ c.op = "sendCommand") =>
                /\ lastCall'.n = c.n
                /\ lastCall'.device_id = c.device_id
                /\ lastCall'.result = "CommandError"
                /\ RegistrationUnaffected(c.device_id)]_vars

C24_Witness ==
    /\ lastCall.op = "sendCommand"
    /\ lastCall.result = "CommandError"
    /\ deviceAdapterMap[lastCall.device_id] = lastCall.via[1]
    /\ DeviceMapOf(lastCall.via[1])[lastCall.device_id] # NoDevice

\* C25: the callbacks made for a polled device never outnumber the intervals
\* that have passed since its registration; and 2.5 s after the registration
\* of a device polled every 1000 ms, with every read answered at once and
\* with success, there have been two or three callbacks.
C25_PollCallbacksFollowInterval ==
    \A d \in Devices :
        /\ IF restDeviceMap[d] # NoDevice /\ PollingInterval(d) # 0
           THEN nCallbacks[d] * PollingInterval(d) <= now
           ELSE nCallbacks[d] = 0
        /\ (now = 2500 /\ ~lapsed[d] /\ restTimers[d] > 0 /\ PollingInterval(d) = 1000) =>
              nCallbacks[d] \in 2..3

C25_Witness ==
    /\ now = 2500
    /\ ~lapsed["d1"]
    /\ restTimers["d1"] > 0
    /\ PollingInterval("d1") = 1000
    /\ nCallbacks["d1"] = 2

\* C26: a fetchData that waits for the device's answer is settled in the end,
\* whether the device answers or not.
C26_FetchEventuallySettles ==
    (fetchPending # {}) ~> (fetchPending = {})

\* The most recent min(n, RetentionCap) of the points 1..n, in arrival order.
Window(n) ==
    LET m == IF n < RetentionCap THEN n ELSE RetentionCap
    IN  [i \in 1..m |-> n - m + i]

\* C27: the list kept for a device holds exactly the most recent
\* min(n, 1000) of the n points that have arrived for it, in arrival order.
C27_RetentionWindow ==
    \A d \in Devices : Stored(d) = Window(nArrived[d])

\* The list a device has is a run of consecutive points no longer than the cap.
ProcessDataWindow ==
    \A d \in Devices :
        (HasData(d) /\ Len(deviceData[d]) > 0) =>
            LET n == deviceData[d][Len(deviceData[d])]
                m == Len(deviceData[d])
            IN  /\ m <= RetentionCap
                /\ \A i \in 1..m : deviceData[d][i] = n - m + i

C29_ArchivedIsTerminal ==
    [][\A d \in Devices :
          dbDevices[d] = "archived" =>
              /\ dbDevices'[d] = "archived"
              /\ \A initialized \in BOOLEAN :
                    StoreRegisterDevice(d, initialized) => svcLast'.result # "ok"]_vars

\* C30: validateDeviceConnection succeeds when the adapter's test reports
\* true, and when it reports false it fails with a DeviceError of code
\* DEVICE_CONNECTION_FAILED.
C30_ConnectionValidationCode ==
    [][\A id \in Devices :
          /\ ValidateDeviceConnection(id, "true") => svcLast'.result = "ok"
          /\ ValidateDeviceConnection(id, "false") =>
                /\ svcLast'.result = "DeviceError"
                /\ svcLast'.code = "DEVICE_CONNECTION_FAILED"]_vars

\* C31: when the subscription to a device's data topic fails, the
\* registration of the device has failed, and the device is bound neither in
\* the bus adapter's device map nor in the registry's routing table.
C31_FailedSubscriptionFailsRegistration ==
    [][\A sub \in mqttPendingSubs :
          (/\ MqttSubscribed(sub, FALSE)
           /\ mqttDeviceMap[sub.device_id] # NoDevice
           /\ mqttDeviceMap[sub.device_id].connection_details.data = sub.topic) =>
              /\ mqttDeviceMap'[sub.device_id] = NoDevice
              /\ deviceAdapterMap'[sub.device_id] # "MQTT"
              /\ ~(/\ lastCall.op = "registerDevice"
                   /\ lastCall.device_id = sub.device_id
                   /\ lastCall.result = "ok")]_vars

\* C32: when no call is in progress and no subscription is awaited, a topic
\* is mapped to a device exactly if the device is registered with the bus
\* adapter with that topic as its data topic.
C32_TopicMapInvertsRegistrations ==
    (Quiescent /\ mqttPendingSubs = {}) =>
        \A t \in Topics, d \in Devices :
            mqttSubscriptions[t] = d <=>
                /\ mqttDeviceMap[d] # NoDevice
                /\ mqttDeviceMap[d].connection_details.data = t

\* C33: a data point produced by an adapter whose options block was given
\* an onDataCallback is handed to that callback.
C33_BlockCallbackInvoked ==
    (cbInvoked.protocol # "" /\ cbInvoked.protocol \in cbOptions.blocks) => cbInvoked.block

\* C34: when the health probe of a polled device's registration is rejected,
\* and the device was not registered with the polling adapter before, the
\* device is not in the adapter's device map and has no polling timer, and
\* sendCommand and fetchData of the adapter report it as not found.
C34_FailedProbeLeavesAdapter ==
    [][\A c \in regCalls :
          (/\ RestProbeResponse(c, FALSE)
           /\ deviceAdapterMap[c.device.device_id] # "REST") =>
              /\ restDeviceMap'[c.device.device_id] = NoDevice
              /\ restTimers'[c.device.device_id] = 0
              /\ RestSendCommand(c.device.device_id)'.result = "DeviceNotFound"
              /\ RestFetchData(c.device.device_id)'.result = "DeviceNotFound"]_vars

\* C35: a sendCommand to a stream device whose registerDevice has resolved,
\* and which the adapter still holds, is not rejected for lack of an active
\* connection.
C35_RegisteredStreamDeviceHasConnection ==
    [][\A id \in Devices :
          (/\ SendCommand(id)
           /\ deviceAdapterMap[id] = "WebSocket"
           /\ wsDeviceMap[id] # NoDevice) =>
              lastCall'.result # "NoConnection"]_vars

\* C36: the connections the stream adapter has stored are open: the
\* endpoint of a connection that has closed is not in the map.
C36_StoredConnectionsAreOpen ==
    \A u \in Urls : wsConnections[u] # 0 => wsSockets[wsConnections[u]].st = "open"

\* C37: a polled device has at most one active timer, and a timer is
\* active only for a device that is in the device map and whose current
\* registration gives an interval.
C37_OneTimerPerPolledDevice ==
    \A d \in Devices :
        /\ restTimers[d] <= 1
        /\ restTimers[d] > 0 =>
               /\ restDeviceMap[d] # NoDevice
               /\ PollingInterval(d) # 0

\* C38: when the registry's registration of a device the service does not
\* hold fails, the service holds no record of the device, and a status
\* query for it reports that the device is not found.
C38_FailedRegistrationLeavesNoRecord ==
    [][\A c \in regCalls :
          (/\ RestProbeResponse(c, FALSE)
           /\ deviceAdapterMap[c.device.device_id] # "REST") =>
              /\ ~Known(c.device.device_id)'
              /\ GetDeviceStatus(c.device.device_id)' = "DeviceNotFound"]_vars

\* C39: the OT2 server has a current protocol exactly when an experiment is
\* running.
C39_ProtocolIffRunning ==
    (currentProtocol # NoProtocol) <=> experimentRunning

\* C40: a getData call that has resolved has resolved with the timeout
\* status or with the device's answer to its own get_data command.
C40_GetDataResolvesWithOwnResponse ==
    \A r \in 1..MaxRequests :
        otCalls[r].st = "resolved" =>
            \/ otCalls[r].result = "timeout"
            \/ otCalls[r].result = "data" /\ otCalls[r].of = r

====
